---- MODULE Spec2Model ----
(***************************************************************************)
(* Handoff synthesis engine of cli-continues (src/utils/markdown.ts):      *)
(* tool classification, MCP namespace grouping, display caps, category     *)
(* renderers and the document assembler.                                   *)
(*                                                                         *)
(* Representation of strings that the code takes apart:                    *)
(*  - a tool name is [prefix, parts]: the text is prefix followed by the   *)
(*    parts joined with "__", so name.split('__') has Len(parts) elements  *)
(*    and name.startsWith('mcp__') is prefix = "" with a first part "mcp"  *)
(*    followed by at least one more part;                                  *)
(*  - a multi-line text (stdout tail, error message, diff) is the sequence *)
(*    of its lines, i.e. text.split('\n'); the empty string is <<"">>.     *)
(*  - an optional field is a record field that is present or not.          *)
(***************************************************************************)
EXTENDS Integers, Sequences, FiniteSets, TLC

VARIABLES
  toolSummaries,   \* argument: ToolUsageSummary[]
  mode,            \* argument: the value passed in the mode position
  session,         \* argument: UnifiedSession
  messages,        \* argument: ConversationMessage[]
  filesModified,   \* argument: string[]
  pendingTasks,    \* argument: string[]
  sessionNotes,    \* argument: {} when undefined, {notes} otherwise
  sourceLabelsCache, \* module variable _sourceLabels: {} when null, {map} once built
  outcome,         \* "pending" before the call, then "returned" or "threw"
  markdown,        \* the lines joined into the returned string
  earlier,         \* the strings returned by earlier calls with the same arguments
  callerPc,        \* position of each concurrent caller inside getSourceLabels
  callerBuilt,     \* the map a caller has built and not yet stored: {} or {map}
  callerLabels,    \* the value getSourceLabels returned to each caller: {} or {map}
  cliCall,         \* the CLI function called and its arguments
  availableTools,  \* what getAvailableTools() resolves to
  cwd,             \* process working directory
  exitCode,        \* process.exitCode
  prompts,         \* the option lists clack.select has shown
  resumeCalls,     \* the invocations of resume / nativeResumeFn, with the cwd at that time
  cliOutcome,      \* "pending", then "returned" or "threw"
  cliValue,        \* the value returned: {} for null or void, {v} otherwise
  ampThread,       \* the Amp thread extractSessionNotes is given
  ampNotes,        \* the SessionNotes it returns
  copilotEvents,   \* the events extractCopilotToolSummaries is given
  copilotSummaries, \* the summaries it returns
  clineMessages,   \* the raw Cline messages
  clineMax,        \* the max argument of extractPendingTasks
  clineConversation, \* what buildConversation returns
  clineTasks,      \* what extractPendingTasks returns
  returned         \* the parser functions that have returned

arguments == <<toolSummaries, mode, session, messages, filesModified, pendingTasks,
               sessionNotes>>

callers == <<callerPc, callerBuilt, callerLabels>>

cli == <<cliCall, availableTools, cwd, exitCode, prompts, resumeCalls, cliOutcome, cliValue>>

parsers == <<ampThread, ampNotes, copilotEvents, copilotSummaries, clineMessages, clineMax,
             clineConversation, clineTasks, returned>>

\* the state of the assembler in src/utils/markdown.ts
assembler == <<toolSummaries, mode, session, messages, filesModified, pendingTasks,
               sessionNotes, sourceLabelsCache, outcome, markdown, earlier,
               callerPc, callerBuilt, callerLabels>>

vars == <<toolSummaries, mode, session, messages, filesModified, pendingTasks,
          sessionNotes, sourceLabelsCache, outcome, markdown, earlier,
          callerPc, callerBuilt, callerLabels,
          cliCall, availableTools, cwd, exitCode, prompts, resumeCalls, cliOutcome, cliValue,
          ampThread, ampNotes, copilotEvents, copilotSummaries, clineMessages, clineMax,
          clineConversation, clineTasks, returned>>

\* no CLI function is called
NoCli ==
  /\ cliCall = [op |-> "none"]
  /\ availableTools = <<>>
  /\ cwd = "/home"
  /\ exitCode = 0
  /\ prompts = <<>>
  /\ resumeCalls = <<>>
  /\ cliOutcome = "pending"
  /\ cliValue = {}

\* no parser is given anything
NoParsers ==
  /\ ampThread = <<>>
  /\ ampNotes = <<>>
  /\ copilotEvents = <<>>
  /\ copilotSummaries = <<>>
  /\ clineMessages = <<>>
  /\ clineMax = 0
  /\ clineConversation = <<>>
  /\ clineTasks = <<>>
  /\ returned = {}

----------------------------------------------------------------------------
(* Generic helpers *)

Min(a, b) == IF a < b THEN a ELSE b

\* Array.prototype.slice(0, n)
Take(s, n) == SubSeq(s, 1, Min(Len(s), n))

\* Array.prototype.slice(n)
Drop(s, n) == SubSeq(s, n + 1, Len(s))

\* Array.prototype.slice(-n)
LastN_First(s, n) == SubSeq(s, 1, IF Len(s) <= n THEN Len(s) ELSE n)

LastN(s, n) == IF Len(s) <= n THEN s ELSE SubSeq(s, Len(s) - n + 1, Len(s))

Rep(x, n) == [i \in 1..n |-> x]

RECURSIVE Flatten(_)
Flatten(ss) == IF ss = <<>> THEN <<>> ELSE Head(ss) \o Flatten(Tail(ss))

RECURSIVE SumSeq(_)
SumSeq(s) == IF s = <<>> THEN 0 ELSE Head(s) + SumSeq(Tail(s))

Range(s) == {s[i] : i \in 1..Len(s)}

Has(r, f) == f \in DOMAIN r

----------------------------------------------------------------------------
(* Tool names *)

Nm(parts) == [prefix |-> "", parts |-> parts]

\* name.startsWith('mcp__')
StartsWithMcp(name) ==
  name.prefix = "" /\ Len(name.parts) >= 2 /\ name.parts[1] = "mcp"

\* name.split('__')
SplitParts(name) == name.parts

\* `MCP: ${ns}`
McpGroupName(ns) == [prefix |-> "MCP: ", parts |-> <<ns>>]

----------------------------------------------------------------------------
(* Canonical tool-name sets and classifier (types/tool-names.ts) *)

SHELL_TOOLS == {Nm(<<"Bash">>), Nm(<<"exec_command">>)}
WRITE_TOOLS == {Nm(<<"Write">>)}
EDIT_TOOLS == {Nm(<<"Edit">>)}
READ_TOOLS == {Nm(<<"Read">>)}
GREP_TOOLS == {Nm(<<"Grep">>)}
GLOB_TOOLS == {Nm(<<"Glob">>)}
SEARCH_TOOLS == {Nm(<<"WebSearch">>)}
FETCH_TOOLS == {Nm(<<"WebFetch">>)}
TASK_TOOLS == {Nm(<<"Task">>)}
TASK_OUTPUT_TOOLS == {Nm(<<"TaskOutput">>)}
ASK_TOOLS == {Nm(<<"AskUserQuestion">>)}

Undefined == "undefined"

Categories ==
  {"shell", "write", "edit", "read", "grep", "glob",
   "search", "fetch", "task", "ask", "mcp"}

classifyToolName(name) ==
  CASE name \in SHELL_TOOLS -> "shell"
    [] name \in WRITE_TOOLS -> "write"
    [] name \in EDIT_TOOLS -> "edit"
    [] name \in READ_TOOLS -> "read"
    [] name \in GREP_TOOLS -> "grep"
    [] name \in GLOB_TOOLS -> "glob"
    [] name \in SEARCH_TOOLS -> "search"
    [] name \in FETCH_TOOLS -> "fetch"
    [] name \in TASK_TOOLS \cup TASK_OUTPUT_TOOLS -> "task"
    [] name \in ASK_TOOLS -> "ask"
    [] OTHER -> Undefined

----------------------------------------------------------------------------
(* Display caps *)

INLINE_CAPS ==
  [shellDetailed |-> 5, shellStdoutLines |-> 3, writeEditDetailed |-> 3,
   writeEditDiffLines |-> 50, readEntries |-> 15, grepGlobSearchFetch |-> 8,
   mcpTaskAsk |-> 3]

REFERENCE_CAPS_Shrunk ==
  [shellDetailed |-> 8, shellStdoutLines |-> 5, writeEditDetailed |-> 5,
   writeEditDiffLines |-> 200, readEntries |-> 20, grepGlobSearchFetch |-> 10,
   mcpTaskAsk |-> 2]

REFERENCE_CAPS ==
  [shellDetailed |-> 8, shellStdoutLines |-> 5, writeEditDetailed |-> 5,
   writeEditDiffLines |-> 200, readEntries |-> 20, grepGlobSearchFetch |-> 10,
   mcpTaskAsk |-> 5]

CapNames == DOMAIN INLINE_CAPS

----------------------------------------------------------------------------
(* Category ordering *)

\* the (set, priority) table of buildCategoryOrder
CategoryMapping ==
  << <<SHELL_TOOLS, 0>>, <<WRITE_TOOLS, 1>>, <<EDIT_TOOLS, 2>>,
     <<READ_TOOLS, 3>>, <<GREP_TOOLS, 4>>, <<GLOB_TOOLS, 5>>,
     <<SEARCH_TOOLS, 6>>, <<FETCH_TOOLS, 7>>, <<TASK_TOOLS, 8>>,
     <<TASK_OUTPUT_TOOLS, 8>>, <<ASK_TOOLS, 9>> >>

\* order[name] = priority, a later table row overwriting an earlier one
buildCategoryOrder ==
  LET Known == UNION {CategoryMapping[i][1] : i \in DOMAIN CategoryMapping}
      LastRow(n) == CHOOSE i \in DOMAIN CategoryMapping :
                      /\ n \in CategoryMapping[i][1]
                      /\ \A j \in DOMAIN CategoryMapping :
                           n \in CategoryMapping[j][1] => j <= i
  IN [n \in Known |-> CategoryMapping[LastRow(n)][2]]

CATEGORY_ORDER == buildCategoryOrder

UnknownPriority == 10

getCategoryOrder(name) ==
  IF name \in DOMAIN CATEGORY_ORDER THEN CATEGORY_ORDER[name] ELSE UnknownPriority

----------------------------------------------------------------------------
(* Category detection *)

detectCategory_AnySample(tool) ==
  LET withData == {i \in 1..Len(tool.samples) : Has(tool.samples[i], "data")}
  IN IF withData # {}
       THEN tool.samples[CHOOSE i \in withData : \A j \in withData : i <= j].data.category
       ELSE IF classifyToolName(tool.name) # Undefined
              THEN classifyToolName(tool.name) ELSE "mcp"

detectCategory(tool) ==
  IF Len(tool.samples) >= 1 /\ Has(tool.samples[1], "data")
    THEN tool.samples[1].data.category
    ELSE IF classifyToolName(tool.name) # Undefined
           THEN classifyToolName(tool.name) ELSE "mcp"

----------------------------------------------------------------------------
(* MCP namespace grouping *)

MCP_GROUP_SAMPLE_CAP == 5

\* the first loop's test: is the tool put into a namespace bucket?
IsNamespaced(tool) ==
  /\ detectCategory(tool) = "mcp"
  /\ StartsWithMcp(tool.name)
  /\ Len(SplitParts(tool.name)) >= 3

NamespaceOf(tool) == SplitParts(tool.name)[2]

PassThrough_All(summaries) == summaries

\* result after the first loop: the tools that are not bucketed, in order
PassThrough(summaries) == SelectSeq(summaries, LAMBDA t : ~IsNamespaced(t))

\* the keys of nsGroups in insertion (first-seen) order
RECURSIVE NsKeys(_)
NsKeys(summaries) ==
  IF summaries = <<>> THEN <<>>
  ELSE LET front == SubSeq(summaries, 1, Len(summaries) - 1)
           last == summaries[Len(summaries)]
           keys == NsKeys(front)
       IN IF IsNamespaced(last) /\ NamespaceOf(last) \notin Range(keys)
            THEN Append(keys, NamespaceOf(last)) ELSE keys

\* nsGroups.get(ns): the bucket's tools in encounter order
NsBucket(summaries, ns) ==
  SelectSeq(summaries, LAMBDA t : IsNamespaced(t) /\ NamespaceOf(t) = ns)

ErrorsOf(t) == IF Has(t, "errorCount") THEN t.errorCount ELSE 0

\* the bounded push loop: append while fewer than the cap are held
RECURSIVE PushCapped(_, _)
PushCapped(acc, ss) ==
  IF ss = <<>> THEN acc
  ELSE PushCapped(IF Len(acc) < MCP_GROUP_SAMPLE_CAP THEN Append(acc, Head(ss)) ELSE acc,
                  Tail(ss))

MergeGroup_NoCap(ns, tools) ==
  LET totalCount == SumSeq([i \in 1..Len(tools) |-> tools[i].count])
      totalErrors == SumSeq([i \in 1..Len(tools) |-> ErrorsOf(tools[i])])
      mergedSamples == Flatten([i \in 1..Len(tools) |-> tools[i].samples])
  IN IF totalErrors > 0
       THEN [name |-> McpGroupName(ns), count |-> totalCount,
             errorCount |-> totalErrors, samples |-> mergedSamples]
       ELSE [name |-> McpGroupName(ns), count |-> totalCount,
             samples |-> mergedSamples]

MergeGroup(ns, tools) ==
  LET totalCount == SumSeq([i \in 1..Len(tools) |-> tools[i].count])
      totalErrors == SumSeq([i \in 1..Len(tools) |-> ErrorsOf(tools[i])])
      mergedSamples == PushCapped(<<>>, Flatten([i \in 1..Len(tools) |-> tools[i].samples]))
  IN IF totalErrors > 0
       THEN [name |-> McpGroupName(ns), count |-> totalCount,
             errorCount |-> totalErrors, samples |-> mergedSamples]
       ELSE [name |-> McpGroupName(ns), count |-> totalCount,
             samples |-> mergedSamples]

BucketEntry_AlwaysMerge(ns, tools) == MergeGroup(ns, tools)

\* the second loop's contribution for one bucket
BucketEntry(ns, tools) ==
  IF Len(tools) = 1 THEN tools[1] ELSE MergeGroup(ns, tools)

groupMcpByNamespace_BucketsFirst(summaries) ==
  LET keys == NsKeys(summaries)
  IN [k \in 1..Len(keys) |-> BucketEntry(keys[k], NsBucket(summaries, keys[k]))]
       \o PassThrough(summaries)

groupMcpByNamespace(summaries) ==
  LET keys == NsKeys(summaries)
  IN PassThrough(summaries)
       \o [k \in 1..Len(keys) |-> BucketEntry(keys[k], NsBucket(summaries, keys[k]))]

----------------------------------------------------------------------------
(* Rendered lines.  A line is [kind, text, strs, nums]: kind names the     *)
(* template literal that produced it, text/strs/nums are the interpolated  *)
(* values (strings and numbers) in template order.                         *)

L(kind, text, strs, nums) == [kind |-> kind, text |-> text, strs |-> strs, nums |-> nums]

Blank == L("blank", "", <<>>, <<>>)

\* JavaScript truthiness of optional fields
TruthyText(d, f) == Has(d, f) /\ d[f] # <<"">>     \* multi-line text, '' is falsy
TruthyStr(d, f) == Has(d, f) /\ d[f] # ""          \* string
TruthyNum(d, f) == Has(d, f) /\ d[f] # 0           \* number
TruthyBool(d, f) == Has(d, f) /\ d[f]              \* boolean

NameStrs(name) == <<name.prefix>> \o name.parts

\* `, ${tool.errorCount} errors` when errorCount is truthy, '' otherwise
ErrorStr(tool) == IF TruthyNum(tool, "errorCount") THEN <<tool.errorCount>> ELSE <<>>

\* `### ${label} (${tool.count} calls${errorStr})`
Heading(labelStrs, tool) == L("heading", "", labelStrs, <<tool.count>> \o ErrorStr(tool))

\* sample rendered as its summary, in the given list style
SummaryLine(style, sample) == L("summary", sample.summary, <<style>>, <<>>)

IsCat(sample, category) == Has(sample, "data") /\ sample.data.category = category

(* Shell *)

FencedBlock(lang, kind, textLines) ==
  <<L("fenceOpen", lang, <<>>, <<>>)>>
    \o [i \in 1..Len(textLines) |-> L(kind, textLines[i], <<>>, <<>>)]
    \o <<L("fenceClose", "", <<>>, <<>>)>>

renderShellSample_BothBlocks(sample, maxStdoutLines) ==
  IF ~IsCat(sample, "shell") THEN <<SummaryLine("quote", sample), Blank>>
  ELSE LET d == sample.data
           exit == IF Has(d, "exitCode")
                     THEN <<L("exit", IF TruthyBool(d, "errored") THEN "  **[ERROR]**" ELSE "",
                              <<>>, <<d.exitCode>>)>>
                     ELSE <<>>
           out == IF TruthyText(d, "stdoutTail")
                    THEN FencedBlock("", "out", Take(d.stdoutTail, maxStdoutLines))
                    ELSE <<>>
           err == IF TruthyBool(d, "errored") /\ TruthyText(d, "errorMessage")
                    THEN FencedBlock("", "out", Take(d.errorMessage, maxStdoutLines))
                    ELSE <<>>
       IN <<L("shellCmd", d.command, <<>>, <<>>)>> \o exit \o out \o err \o <<Blank>>

renderShellSample(sample, maxStdoutLines) ==
  IF ~IsCat(sample, "shell") THEN <<SummaryLine("quote", sample), Blank>>
  ELSE LET d == sample.data
           exit == IF Has(d, "exitCode")
                     THEN <<L("exit", IF TruthyBool(d, "errored") THEN "  **[ERROR]**" ELSE "",
                              <<>>, <<d.exitCode>>)>>
                     ELSE <<>>
           block == IF TruthyText(d, "stdoutTail")
                      THEN FencedBlock("", "out", Take(d.stdoutTail, maxStdoutLines))
                    ELSE IF TruthyBool(d, "errored") /\ TruthyText(d, "errorMessage")
                      THEN FencedBlock("", "out", Take(d.errorMessage, maxStdoutLines))
                    ELSE <<>>
       IN <<L("shellCmd", d.command, <<>>, <<>>)>> \o exit \o block \o <<Blank>>

NoFiles == [strs |-> <<>>, nums |-> <<>>]

\* the `...and ${remaining} more ...` line, emitted when remaining > 0
Overflow(remaining, what, suffix, files) ==
  IF remaining > 0
    THEN <<L("overflow", what, <<suffix>> \o files.strs, <<remaining>> \o files.nums)>>
    ELSE <<>>

renderShellSection_CapRemainder(tool, caps) ==
  LET detailed == Take(tool.samples, caps.shellDetailed)
      remaining == tool.count - caps.shellDetailed
      allOk == IF ~TruthyNum(tool, "errorCount") THEN " (all exit 0)" ELSE ""
      over == Overflow(remaining, "shell calls", allOk, NoFiles)
  IN <<Heading(<<"", "Shell">>, tool), Blank>>
       \o Flatten([i \in 1..Len(detailed) |-> renderShellSample(detailed[i], caps.shellStdoutLines)])
       \o (IF over # <<>> THEN over \o <<Blank>> ELSE <<>>)

renderShellSection_AlwaysOk(tool, caps) ==
  LET detailed == Take(tool.samples, caps.shellDetailed)
      remaining == tool.count - Len(detailed)
      over == Overflow(remaining, "shell calls", " (all exit 0)", NoFiles)
  IN <<Heading(<<"", "Shell">>, tool), Blank>>
       \o Flatten([i \in 1..Len(detailed) |-> renderShellSample(detailed[i], caps.shellStdoutLines)])
       \o (IF over # <<>> THEN over \o <<Blank>> ELSE <<>>)

renderShellSection(tool, caps) ==
  LET detailed == Take(tool.samples, caps.shellDetailed)
      remaining == tool.count - Len(detailed)
      allOk == IF ~TruthyNum(tool, "errorCount") THEN " (all exit 0)" ELSE ""
      over == Overflow(remaining, "shell calls", allOk, NoFiles)
  IN <<Heading(<<"", "Shell">>, tool), Blank>>
       \o Flatten([i \in 1..Len(detailed) |-> renderShellSample(detailed[i], caps.shellStdoutLines)])
       \o (IF over # <<>> THEN over \o <<Blank>> ELSE <<>>)

(* Write / Edit *)

\* l.startsWith('---') || l.startsWith('+++') on the model's diff lines
DashLines == {"--- a/f", "--- removed sql comment"}
PlusLines == {"+++ b/f"}
IsDiffHeader(l) == l \in DashLines \/ l \in PlusLines

\* the fenced diff body and the truncation note
DiffBlock(d, maxDiffLines) ==
  IF ~TruthyText(d, "diff") THEN <<>>
  ELSE LET bodyLines == SelectSeq(d.diff, LAMBDA l : ~IsDiffHeader(l))
           capped == Take(bodyLines, maxDiffLines)
           truncated == Len(bodyLines) - Len(capped)
       IN FencedBlock("diff", "diff", capped)
            \o (IF truncated > 0 THEN <<L("truncated", "", <<>>, <<truncated>>)>> ELSE <<>>)

\* diffStats as numbers: <<>> when absent
Stats(d) == IF Has(d, "diffStats") THEN <<d.diffStats.added, d.diffStats.removed>> ELSE <<>>

renderWriteSample(sample, maxDiffLines) ==
  IF ~IsCat(sample, "write") THEN <<SummaryLine("quote", sample), Blank>>
  ELSE LET d == sample.data
           newTag == IF TruthyBool(d, "isNewFile") THEN " (new file)" ELSE ""
           statsTag == IF Has(d, "diffStats") THEN <<d.diffStats.added>> ELSE <<>>
       IN <<L("writeFile", d.filePath, <<newTag>>, statsTag)>>
            \o DiffBlock(d, maxDiffLines) \o <<Blank>>

renderEditSample(sample, maxDiffLines) ==
  IF ~IsCat(sample, "edit") THEN <<SummaryLine("quote", sample), Blank>>
  ELSE LET d == sample.data
       IN <<L("editFile", d.filePath, <<>>, Stats(d))>>
            \o DiffBlock(d, maxDiffLines) \o <<Blank>>

\* the overflow file list: `\`${d.filePath}\`${stats}` of the matching samples past the cap
\* (strs lists each path followed by "+-" when its stats are printed; nums lists the stats)
OverflowFiles(tool, category, cap) ==
  LET rest == SelectSeq(Drop(tool.samples, cap), LAMBDA s : IsCat(s, category))
  IN [strs |-> Flatten([i \in 1..Len(rest) |->
                 <<rest[i].data.filePath>>
                   \o (IF Has(rest[i].data, "diffStats") THEN <<"+-">> ELSE <<>>)]),
      nums |-> Flatten([i \in 1..Len(rest) |-> Stats(rest[i].data)])]

renderWriteSection(tool, caps) ==
  LET detailed == Take(tool.samples, caps.writeEditDetailed)
      remaining == tool.count - Len(detailed)
      over == Overflow(remaining, "writes", "", OverflowFiles(tool, "write", caps.writeEditDetailed))
  IN <<Heading(<<"", "Write">>, tool), Blank>>
       \o Flatten([i \in 1..Len(detailed) |-> renderWriteSample(detailed[i], caps.writeEditDiffLines)])
       \o (IF over # <<>> THEN over \o <<Blank>> ELSE <<>>)

renderEditSection(tool, caps) ==
  LET detailed == Take(tool.samples, caps.writeEditDetailed)
      remaining == tool.count - Len(detailed)
      over == Overflow(remaining, "edits", "", OverflowFiles(tool, "edit", caps.writeEditDetailed))
  IN <<Heading(<<"", "Edit">>, tool), Blank>>
       \o Flatten([i \in 1..Len(detailed) |-> renderEditSample(detailed[i], caps.writeEditDiffLines)])
       \o (IF over # <<>> THEN over \o <<Blank>> ELSE <<>>)

(* Read / Grep / Glob *)

ReadEntry(sample) ==
  IF IsCat(sample, "read")
    THEN LET d == sample.data
             range == IF TruthyNum(d, "lineStart") /\ TruthyNum(d, "lineEnd")
                        THEN <<d.lineStart, d.lineEnd>>
                      ELSE IF TruthyNum(d, "lineStart") THEN <<d.lineStart>> ELSE <<>>
         IN L("readEntry", d.filePath, <<>>, range)
    ELSE SummaryLine("bullet", sample)

renderReadSection(tool, caps) ==
  LET shown == Take(tool.samples, caps.readEntries)
      remaining == tool.count - Len(shown)
  IN <<Heading(<<"", "Read">>, tool), Blank>>
       \o [i \in 1..Len(shown) |-> ReadEntry(shown[i])]
       \o Overflow(remaining, "files read", "", NoFiles) \o <<Blank>>

GrepEntry(sample) ==
  IF IsCat(sample, "grep")
    THEN LET d == sample.data
         IN L("grepEntry", d.pattern,
              IF TruthyStr(d, "targetPath") THEN <<d.targetPath>> ELSE <<>>,
              IF Has(d, "matchCount") THEN <<d.matchCount>> ELSE <<>>)
    ELSE SummaryLine("bullet", sample)

renderGrepSection(tool, caps) ==
  LET shown == Take(tool.samples, caps.grepGlobSearchFetch)
      remaining == tool.count - Len(shown)
  IN <<Heading(<<"", "Grep">>, tool), Blank>>
       \o [i \in 1..Len(shown) |-> GrepEntry(shown[i])]
       \o Overflow(remaining, "grep searches", "", NoFiles) \o <<Blank>>

GlobEntry(sample) ==
  IF IsCat(sample, "glob")
    THEN LET d == sample.data
         IN L("globEntry", d.pattern, <<>>,
              IF Has(d, "resultCount") THEN <<d.resultCount>> ELSE <<>>)
    ELSE SummaryLine("bullet", sample)

renderGlobSection(tool, caps) ==
  LET shown == Take(tool.samples, caps.grepGlobSearchFetch)
      remaining == tool.count - Len(shown)
  IN <<Heading(<<"", "Glob">>, tool), Blank>>
       \o [i \in 1..Len(shown) |-> GlobEntry(shown[i])]
       \o Overflow(remaining, "glob calls", "", NoFiles) \o <<Blank>>

(* Compact renderer (search, fetch, task, ask, mcp) *)

COMPACT_LABELS ==
  [search |-> "Search", fetch |-> "Fetch", task |-> "Task", ask |-> "Ask", mcp |-> "MCP"]

\* the formatted text after the "- " bullet; dispatches on the sample's own category
formatCompactSample(sample, category) ==
  IF ~Has(sample, "data") THEN SummaryLine("bullet", sample)
  ELSE LET d == sample.data
       IN CASE d.category = "search" ->
                 L("compact", d.query, <<"search">>,
                   IF Has(d, "resultCount") THEN <<d.resultCount>> ELSE <<>>)
            [] d.category = "fetch" ->
                 L("compact", d.url,
                   <<"fetch">> \o (IF TruthyStr(d, "resultPreview") THEN <<d.resultPreview>> ELSE <<>>),
                   <<>>)
            [] d.category = "task" ->
                 L("compact", d.description,
                   <<"task">>
                     \o (IF TruthyStr(d, "agentType") THEN <<"type", d.agentType>> ELSE <<>>)
                     \o (IF TruthyStr(d, "resultSummary") THEN <<"result", d.resultSummary>> ELSE <<>>),
                   <<>>)
            [] d.category = "ask" -> L("compact", d.question, <<"ask">>, <<>>)
            [] d.category = "mcp" ->
                 L("compact", d.toolName,
                   <<"mcp">>
                     \o (IF TruthyStr(d, "params") THEN <<"params", d.params>> ELSE <<>>)
                     \o (IF TruthyStr(d, "result") THEN <<"result", d.result>> ELSE <<>>),
                   <<>>)
            [] OTHER -> SummaryLine("bullet", sample)

renderCompactSection(tool, category, caps) ==
  LET label == IF category \in DOMAIN COMPACT_LABELS
                 THEN <<"", COMPACT_LABELS[category]>> ELSE NameStrs(tool.name)
      cap == IF category \in {"search", "fetch"} THEN caps.grepGlobSearchFetch ELSE caps.mcpTaskAsk
      shown == Take(tool.samples, cap)
      remaining == tool.count - Len(shown)
  IN <<Heading(label, tool), Blank>>
       \o [i \in 1..Len(shown) |-> formatCompactSample(shown[i], category)]
       \o Overflow(remaining, "", "", NoFiles) \o <<Blank>>

(* Fallback renderer *)

FallbackSamples == 5

renderFallbackSection(tool) ==
  LET shown == Take(tool.samples, FallbackSamples)
      remaining == tool.count - Min(Len(tool.samples), FallbackSamples)
  IN <<L("heading", "", NameStrs(tool.name), <<tool.count>>), Blank>>
       \o [i \in 1..Len(shown) |-> SummaryLine("bullet", shown[i])]
       \o Overflow(remaining, "", "", NoFiles) \o <<Blank>>

----------------------------------------------------------------------------
(* Tool Activity *)

\* the comparator's key: the priority of the aggregate's NAME
SortKey(tool) == getCategoryOrder(tool.name)

\* Array.prototype.sort with comparator SortKey(a) - SortKey(b): stable, ascending
RECURSIVE InsertStable(_, _)
InsertStable(x, s) ==
  IF s = <<>> THEN <<x>>
  ELSE IF SortKey(Head(s)) <= SortKey(x)
         THEN <<Head(s)>> \o InsertStable(x, Tail(s))
         ELSE <<x>> \o s

RECURSIVE StableSort(_)
StableSort(s) ==
  IF s = <<>> THEN <<>>
  ELSE InsertStable(s[Len(s)], StableSort(SubSeq(s, 1, Len(s) - 1)))

\* grouped, then sorted: the list the rendering loop walks
SortedSummaries(summaries) == StableSort(groupMcpByNamespace(summaries))

\* the body of the rendering loop's switch
renderSection(tool, caps) ==
  LET category == detectCategory(tool)
  IN CASE category = "shell" -> renderShellSection(tool, caps)
       [] category = "write" -> renderWriteSection(tool, caps)
       [] category = "edit" -> renderEditSection(tool, caps)
       [] category = "read" -> renderReadSection(tool, caps)
       [] category = "grep" -> renderGrepSection(tool, caps)
       [] category = "glob" -> renderGlobSection(tool, caps)
       [] category \in {"search", "fetch", "task", "ask", "mcp"} ->
            renderCompactSection(tool, category, caps)
       [] OTHER -> renderFallbackSection(tool)

renderToolActivity(summaries, caps) ==
  LET sorted == SortedSummaries(summaries)
  IN Flatten([i \in 1..Len(sorted) |-> renderSection(sorted[i], caps) \o <<Blank>>])

----------------------------------------------------------------------------
(* Source labels *)

\* name and label of every adapter registered in parsers/registry.ts
Adapters ==
  << [name |-> "claude", label |-> "Claude Code"],
     [name |-> "codex", label |-> "Codex CLI"],
     [name |-> "copilot", label |-> "GitHub Copilot CLI"],
     [name |-> "gemini", label |-> "Gemini CLI"],
     [name |-> "opencode", label |-> "OpenCode"],
     [name |-> "droid", label |-> "Factory Droid"],
     [name |-> "cursor", label |-> "Cursor AI"] >>

BuildSourceLabels_NameAsLabel ==
  [n \in {Adapters[i].name : i \in DOMAIN Adapters} |-> n]

\* Object.fromEntries(Object.values(adapters).map((a) => [a.name, a.label]))
BuildSourceLabels ==
  [n \in {Adapters[i].name : i \in DOMAIN Adapters} |->
     Adapters[CHOOSE i \in DOMAIN Adapters :
                /\ Adapters[i].name = n
                /\ \A j \in DOMAIN Adapters : Adapters[j].name = n => j <= i].label]

\* if (!_sourceLabels)
CacheMiss(cache) == cache = {}

StoreLabels_Toggle(cache, built) == IF cache = {} THEN {built} ELSE {}

\* _sourceLabels = <the map built>
StoreLabels(cache, built) == {built}

getSourceLabels_EmptyOnHit(cache) ==
  IF CacheMiss(cache) THEN StoreLabels(cache, BuildSourceLabels) ELSE {<<>>}

\* the cache after a call of getSourceLabels
getSourceLabels(cache) ==
  IF CacheMiss(cache) THEN StoreLabels(cache, BuildSourceLabels) ELSE cache

----------------------------------------------------------------------------
(* Document assembler *)

Lit(text) == L("literal", text, <<>>, <<>>)
H2(text) == L("h2", text, <<>>, <<>>)
Row(field, strs, nums) == L("row", field, strs, nums)

ModeValues == {"inline", "reference", "config"}

\* mode === 'reference' ? REFERENCE_CAPS : INLINE_CAPS
SelectCaps(m) == IF m = "reference" THEN REFERENCE_CAPS ELSE INLINE_CAPS

RecentMessages == 10
MessageChars == 500
ReasoningShown == 5

OverviewRows(sess, msgs, files, notes, labels) ==
  LET sourceLabel == IF sess.source \in DOMAIN labels /\ labels[sess.source] # ""
                       THEN labels[sess.source] ELSE sess.source
  IN <<Row("Source", <<sourceLabel>>, <<>>),
       Row("Session ID", <<sess.id>>, <<>>),
       Row("Working Directory", <<sess.cwd>>, <<>>)>>
     \o (IF TruthyStr(sess, "repo")
           THEN <<Row("Repository",
                      <<sess.repo>> \o (IF TruthyStr(sess, "branch") THEN <<sess.branch>> ELSE <<>>),
                      <<>>)>>
           ELSE <<>>)
     \o (IF TruthyStr(sess, "model") THEN <<Row("Model", <<sess.model>>, <<>>)>> ELSE <<>>)
     \o (IF TruthyStr(notes, "model") /\ ~(Has(sess, "model") /\ notes.model = sess.model)
           THEN <<Row("Model", <<notes.model>>, <<>>)>> ELSE <<>>)
     \* toISOString().slice(0, 16).replace('T', ' ')
     \o <<Row("Last Active", <<sess.updatedAt.date, " ", sess.updatedAt.time>>, <<>>)>>
     \o (IF Has(notes, "tokenUsage")
           THEN <<Row("Tokens Used", <<>>, <<notes.tokenUsage.input, notes.tokenUsage.output>>)>>
           ELSE <<>>)
     \o (IF Has(notes, "cacheTokens")
           THEN <<Row("Cache Tokens", <<>>, <<notes.cacheTokens.read, notes.cacheTokens.creation>>)>>
           ELSE <<>>)
     \o (IF TruthyNum(notes, "thinkingTokens")
           THEN <<Row("Thinking Tokens", <<>>, <<notes.thinkingTokens>>)>> ELSE <<>>)
     \* Math.round(activeTimeMs / 60000)
     \o (IF TruthyNum(notes, "activeTimeMs")
           THEN <<Row("Active Time", <<>>, <<(notes.activeTimeMs + 30000) \div 60000>>)>> ELSE <<>>)
     \o <<Row("Files Modified", <<>>, <<Len(files)>>),
          Row("Messages", <<>>, <<Len(msgs)>>)>>

\* msg.content.slice(0, 500) + (msg.content.length > 500 ? ELLIPSIS : '')
MessageLines(msg) ==
  <<L("h3", IF msg.role = "user" THEN "User" ELSE "Assistant", <<>>, <<>>),
    Blank,
    L("message", msg.content.text,
      IF msg.content.length > MessageChars THEN <<"ELLIPSIS">> ELSE <<>>,
      <<Min(msg.content.length, MessageChars)>>),
    Blank>>

ClosingSentence == "**You are continuing this session. ...**"

\* if (session.summary) { ... }
SummarySection(sess) ==
  IF TruthyStr(sess, "summary")
    THEN <<H2("Summary"), Blank, L("quote", sess.summary, <<>>, <<>>), Blank, Blank>>
    ELSE <<>>

\* if (sessionNotes?.compactSummary) { ... }
CompactedSection(notes) ==
  IF TruthyStr(notes, "compactSummary")
    THEN <<H2("Session Context (Compacted)"), Blank,
           L("quote", notes.compactSummary, <<>>, <<>>), Blank, Blank>>
    ELSE <<>>

ToolActivitySection_Always(summaries, m) ==
  <<H2("Tool Activity"), Blank>> \o renderToolActivity(summaries, SelectCaps(m)) \o <<Blank>>

\* if (toolSummaries.length > 0) { ... }
ToolActivitySection(summaries, m) ==
  IF Len(summaries) > 0
    THEN <<H2("Tool Activity"), Blank>>
           \o renderToolActivity(summaries, SelectCaps(m)) \o <<Blank>>
    ELSE <<>>

\* if (sessionNotes?.reasoning && sessionNotes.reasoning.length > 0) { ... }
KeyDecisionsSection(notes) ==
  IF Has(notes, "reasoning") /\ Len(notes.reasoning) > 0
    THEN <<H2("Key Decisions"), Blank>>
           \o [i \in 1..Min(Len(notes.reasoning), ReasoningShown) |->
                 L("bullet", notes.reasoning[i], <<>>, <<>>)]
           \o <<Blank, Blank>>
    ELSE <<>>

\* const recentMessages = messages.slice(-10); if (recentMessages.length > 0) { ... }
RecentConversationSection(msgs) ==
  LET recent == LastN(msgs, RecentMessages)
  IN IF Len(recent) > 0
       THEN <<H2("Recent Conversation"), Blank>>
              \o Flatten([i \in 1..Len(recent) |-> MessageLines(recent[i])])
              \o <<Blank>>
       ELSE <<>>

FilesModifiedSection_Always(files) ==
  <<H2("Files Modified"), Blank>>
    \o [i \in 1..Len(files) |-> L("file", files[i], <<>>, <<>>)]
    \o <<Blank, Blank>>

\* if (filesModified.length > 0) { ... }
FilesModifiedSection(files) ==
  IF Len(files) > 0
    THEN <<H2("Files Modified"), Blank>>
           \o [i \in 1..Len(files) |-> L("file", files[i], <<>>, <<>>)]
           \o <<Blank, Blank>>
    ELSE <<>>

\* if (pendingTasks.length > 0) { ... }
PendingTasksSection(tasks) ==
  IF Len(tasks) > 0
    THEN <<H2("Pending Tasks"), Blank>>
           \o [i \in 1..Len(tasks) |-> L("task", tasks[i], <<>>, <<>>)]
           \o <<Blank, Blank>>
    ELSE <<>>

\* the lines pushed, in the order of the pushes
generateHandoffMarkdown(sess, msgs, files, tasks, summaries, notes, m, labels) ==
  <<Lit("# Session Handoff Context"), Blank, Blank,
    Lit("## Session Overview"), Blank,
    Lit("| Field | Value |"), Lit("|-------|-------|")>>
    \o OverviewRows(sess, msgs, files, notes, labels)
    \o <<Blank, Blank>>
    \o SummarySection(sess)
    \o CompactedSection(notes)
    \o ToolActivitySection(summaries, m)
    \o KeyDecisionsSection(notes)
    \o RecentConversationSection(msgs)
    \o FilesModifiedSection(files)
    \o PendingTasksSection(tasks)
    \o <<Lit("---"), Blank, Lit(ClosingSentence)>>

----------------------------------------------------------------------------
(* Bounded inputs *)

MaxTools == 3       \* longest list of aggregates in the list family
MaxRun == 21        \* longest run of one sample kind (exceeds every display cap)
TailRun == 2        \* samples of a second kind appended after the run
LongDiff == 201     \* body lines of the longest diff (exceeds writeEditDiffLines)
ExtraCalls == 2     \* calls counted beyond the retained samples

TextLines(n) == [i \in 1..n |-> "line"]
ErrorLines(n) == [i \in 1..n |-> "error: failed"]

\* a unified diff: two header lines, then n body lines
Diff(n) == <<"--- a/f", "+++ b/f">> \o [i \in 1..n |-> "+added"]

NoData == [summary |-> "raw call"]

\* one sample per category, carrying every optional field
BaseSample ==
  [none |-> NoData,
   shell |-> [summary |-> "$ npm test",
              data |-> [category |-> "shell", command |-> "npm test", exitCode |-> 0,
                        stdoutTail |-> TextLines(6)]],
   write |-> [summary |-> "write src/a.ts",
              data |-> [category |-> "write", filePath |-> "src/a.ts", isNewFile |-> TRUE,
                        diffStats |-> [added |-> 3, removed |-> 0], diff |-> Diff(3)]],
   edit |-> [summary |-> "edit src/b.ts",
             data |-> [category |-> "edit", filePath |-> "src/b.ts",
                       diffStats |-> [added |-> 3, removed |-> 1], diff |-> Diff(3)]],
   read |-> [summary |-> "read src/c.ts",
             data |-> [category |-> "read", filePath |-> "src/c.ts",
                       lineStart |-> 10, lineEnd |-> 20]],
   grep |-> [summary |-> "grep TODO",
             data |-> [category |-> "grep", pattern |-> "TODO", targetPath |-> "src",
                       matchCount |-> 4]],
   glob |-> [summary |-> "glob **/*.ts",
             data |-> [category |-> "glob", pattern |-> "**/*.ts", resultCount |-> 12]],
   search |-> [summary |-> "search tla",
               data |-> [category |-> "search", query |-> "tla", resultCount |-> 5]],
   fetch |-> [summary |-> "fetch https://e.x",
              data |-> [category |-> "fetch", url |-> "https://e.x", resultPreview |-> "Example"]],
   task |-> [summary |-> "task explore",
             data |-> [category |-> "task", description |-> "explore", agentType |-> "Explore",
                       resultSummary |-> "done"]],
   ask |-> [summary |-> "ask which db",
            data |-> [category |-> "ask", question |-> "which db?"]],
   mcp |-> [summary |-> "mcp list_issues",
            data |-> [category |-> "mcp", toolName |-> "list_issues", params |-> "{}",
                      result |-> "ok"]]]

BaseKinds == DOMAIN BaseSample

\* further shapes of shell, write and edit samples
VariantSamples ==
  { [summary |-> "$ ls", data |-> [category |-> "shell", command |-> "ls"]],
    [summary |-> "$ npm run build",
     data |-> [category |-> "shell", command |-> "npm run build", exitCode |-> 1,
               errored |-> TRUE, errorMessage |-> ErrorLines(6)]],
    [summary |-> "$ make",
     data |-> [category |-> "shell", command |-> "make", exitCode |-> 2, errored |-> TRUE,
               stdoutTail |-> TextLines(2), errorMessage |-> ErrorLines(2)]],
    [summary |-> "$ true",
     data |-> [category |-> "shell", command |-> "true", exitCode |-> 0,
               stdoutTail |-> <<"">>, errorMessage |-> <<"boom">>]],
    [summary |-> "write big.ts",
     data |-> [category |-> "write", filePath |-> "big.ts", diff |-> Diff(LongDiff)]],
    [summary |-> "write plain.ts",
     data |-> [category |-> "write", filePath |-> "plain.ts"]],
    [summary |-> "edit big.ts",
     data |-> [category |-> "edit", filePath |-> "big.ts",
               diffStats |-> [added |-> LongDiff, removed |-> 0], diff |-> Diff(LongDiff)]],
    [summary |-> "edit sql",
     data |-> [category |-> "edit", filePath |-> "q.sql",
               diff |-> <<"--- a/f", "+++ b/f", "--- removed sql comment", "+added">>]] }

DataKinds == BaseKinds \ {"none"}

\* sample lists whose first sample carries structured data
DataFirstSamples ==
  {Rep(BaseSample[k], n) : k \in DataKinds, n \in {1, MaxRun}}
    \cup {<<BaseSample[k1]>> \o Rep(BaseSample[k2], TailRun) : k1 \in DataKinds, k2 \in BaseKinds}
    \cup {Rep(BaseSample[k1], MaxRun) \o Rep(BaseSample[k2], TailRun) :
            k1 \in DataKinds, k2 \in {"write", "edit"}}
    \cup {<<v>> : v \in VariantSamples}
    \cup {<<v>> \o Rep(BaseSample[k2], TailRun) : v \in VariantSamples, k2 \in BaseKinds}

\* sample lists that are empty or start with a sample without structured data
NameFirstSamples ==
  {<<>>}
    \cup {Rep(NoData, n) : n \in {1, MaxRun}}
    \cup {<<NoData>> \o Rep(BaseSample[k2], TailRun) : k2 \in BaseKinds}

KnownNames ==
  UNION {SHELL_TOOLS, WRITE_TOOLS, EDIT_TOOLS, READ_TOOLS, GREP_TOOLS, GLOB_TOOLS,
         SEARCH_TOOLS, FETCH_TOOLS, TASK_TOOLS, TASK_OUTPUT_TOOLS, ASK_TOOLS}

UnknownNames == {Nm(<<"mcp", "github", "list_issues">>), Nm(<<"run_cmd">>)}

\* name and samples of the aggregates of the single-aggregate family
RichShapes ==
  ({Nm(<<"run_cmd">>)} \X DataFirstSamples)
    \cup ((KnownNames \cup UnknownNames) \X NameFirstSamples)

Tool(name, count, samples) == [name |-> name, count |-> count, samples |-> samples]
ToolE(name, count, errorCount, samples) ==
  [name |-> name, count |-> count, errorCount |-> errorCount, samples |-> samples]

\* every aggregate has count >= samples.length (samples are capped upstream, count is not)
RichUniverse ==
  {Tool(sh[1], Len(sh[2]) + x, sh[2]) : sh \in RichShapes, x \in {0, ExtraCalls}}
    \cup {ToolE(sh[1], Len(sh[2]) + x, 2, sh[2]) : sh \in RichShapes, x \in {0, ExtraCalls}}
    \* errorCount: 0, on the aggregates of shell samples
    \cup {ToolE(sh[1], Len(sh[2]) + x, 0, sh[2]) :
            sh \in {r \in RichShapes : r[2] # <<>> /\ IsCat(r[2][1], "shell")},
            x \in {0, ExtraCalls}}

McpSample(tool) ==
  [summary |-> tool, data |-> [category |-> "mcp", toolName |-> tool]]

\* aggregates of the list family
ToolUniverse ==
  { Tool(Nm(<<"Bash">>), 7, Rep(BaseSample.shell, 5)),
    Tool(Nm(<<"Read">>), 2, <<NoData, BaseSample.shell>>),
    ToolE(Nm(<<"run_cmd">>), 1, 1, <<BaseSample.shell>>),
    Tool(Nm(<<"WebSearch">>), 2, <<BaseSample.search, BaseSample.fetch>>),
    Tool(Nm(<<"mcp", "github", "list_issues">>), 3, Rep(McpSample("list_issues"), 3)),
    ToolE(Nm(<<"mcp", "github", "create_issue">>), 4, 1, Rep(McpSample("create_issue"), 4)),
    ToolE(Nm(<<"mcp", "github", "get_issue">>), 2, 0, <<>>),
    Tool(Nm(<<"mcp", "github", "run">>), 1, <<BaseSample.shell>>),
    Tool(Nm(<<"mcp", "jira", "search">>), 1, <<NoData>>),
    Tool(Nm(<<"mcp", "jira", "create">>), 2, <<McpSample("create"), NoData>>),
    Tool(Nm(<<"mcp", "solo">>), 1, <<McpSample("solo")>>) }

\* two namespaces with two tools each and the same number of calls
TwoNamespaces ==
  <<Tool(Nm(<<"mcp", "github", "list_issues">>), 1, <<McpSample("list_issues")>>),
    Tool(Nm(<<"mcp", "jira", "search">>), 1, <<NoData>>),
    Tool(Nm(<<"mcp", "github", "create_issue">>), 2, Rep(McpSample("create_issue"), 2)),
    Tool(Nm(<<"mcp", "jira", "create">>), 2, <<McpSample("create"), NoData>>)>>

\* the lists of at most n distinct elements of S (a list names each tool once:
\* the parsers build it from a map keyed by tool name)
RECURSIVE ListsUpTo(_, _)
ListsUpTo(S, n) ==
  IF n = 0 THEN {<<>>}
  ELSE LET shorter == ListsUpTo(S, n - 1)
       IN shorter \cup UNION {{Append(l, x) : x \in S \ Range(l)} :
                              l \in {m \in shorter : Len(m) = n - 1}}

ToolLists == ListsUpTo(ToolUniverse, MaxTools)

DefaultSession ==
  [source |-> "claude", id |-> "sess-1", cwd |-> "/work",
   updatedAt |-> [date |-> "2025-01-05", time |-> "09:30"]]

Msg(role, text, length) == [role |-> role, content |-> [text |-> text, length |-> length]]

DefaultMessages == <<Msg("user", "fix the bug", 11), Msg("assistant", "done", 4)>>

Sessions ==
  { DefaultSession,
    [source |-> "amp", id |-> "T-1", cwd |-> "/repo", repo |-> "o/r", branch |-> "main",
     model |-> "gpt", summary |-> "refactor",
     updatedAt |-> [date |-> "2025-02-01", time |-> "23:59"]] }

NotesValues ==
  { <<>>,
    [model |-> "opus", tokenUsage |-> [input |-> 1200, output |-> 300],
     cacheTokens |-> [read |-> 10, creation |-> 20], thinkingTokens |-> 50,
     activeTimeMs |-> 90000, reasoning |-> <<"r1", "r2", "r3", "r4", "r5", "r6">>,
     compactSummary |-> "compacted"] }

MessageLists ==
  { <<>>, DefaultMessages,
    [i \in 1..(RecentMessages + 2) |-> Msg("user", "long", MessageChars + 1)] }

FileLists == {<<>>, <<"src/a.ts", "src/b.ts">>}
TaskLists == {<<>>, <<"write tests">>}

\* the arguments of one call
Args(sess, msgs, files, tasks, summaries, notes, m) ==
  [session |-> sess, messages |-> msgs, filesModified |-> files, pendingTasks |-> tasks,
   toolSummaries |-> summaries, sessionNotes |-> notes, mode |-> m]

CallArgs ==
  \* lists of aggregates, default document, mode omitted (the default "inline")
  {Args(DefaultSession, DefaultMessages, <<>>, <<>>, ts, <<>>, "inline") : ts \in ToolLists}
  \* one aggregate with many samples, default document, either valid mode
  \cup {Args(DefaultSession, DefaultMessages, <<>>, <<>>, <<t>>, <<>>, m) :
          t \in RichUniverse, m \in {"inline", "reference"}}
  \* documents with no or one aggregate, any mode value
  \cup {Args(se, ms, fs, ps, ts, ns, m) :
          se \in Sessions, ms \in MessageLists, fs \in FileLists, ps \in TaskLists,
          ts \in {<<>>, <<Tool(Nm(<<"Bash">>), 1, <<BaseSample.shell>>)>>},
          ns \in NotesValues, m \in ModeValues}
  \* a session that used two tools of each of two MCP servers
  \cup {Args(DefaultSession, DefaultMessages, <<>>, <<>>, TwoNamespaces, <<>>, "inline")}

\* further bounded inputs of the document families
MaxMessages == 12   \* longest conversation (exceeds the 10 messages shown)
MaxFiles == 51      \* longest list of modified files and of pending tasks

\* of the last ten messages the first is one character short of the limit, the
\* second exactly at it, the others past it
Conversation(n) ==
  [i \in 1..n |-> Msg(IF i % 2 = 1 THEN "user" ELSE "assistant",
                      "m" \o ToString(i), MessageChars + i + 8 - n)]

DocumentSessions ==
  Sessions
    \cup { [source |-> "codex", id |-> "c-1", cwd |-> "/w", summary |-> "port the parser",
            updatedAt |-> [date |-> "2025-03-01", time |-> "00:00"]],
           [source |-> "kiro", id |-> "k-1", cwd |-> "/w", summary |-> "",
            updatedAt |-> [date |-> "2025-03-02", time |-> "12:00"]] }

DocumentNotes ==
  NotesValues
    \cup { [reasoning |-> <<>>], [reasoning |-> <<"r1">>], [compactSummary |-> "compacted"] }

DocumentMessages == {<<>>, DefaultMessages, Conversation(MaxMessages)}

DocumentFiles == FileLists \cup {[i \in 1..MaxFiles |-> "src/f" \o ToString(i)]}

DocumentTasks == TaskLists \cup {[i \in 1..MaxFiles |-> "task " \o ToString(i)]}

DocumentArgs ==
  {Args(se, ms, fs, ps, ts, ns, m) :
     se \in DocumentSessions, ms \in DocumentMessages, fs \in DocumentFiles,
     ps \in DocumentTasks,
     ts \in {<<>>, <<Tool(Nm(<<"Bash">>), 1, <<BaseSample.shell>>)>>},
     ns \in DocumentNotes, m \in {"inline", "reference"}}

----------------------------------------------------------------------------
(* The program: one call of generateHandoffMarkdown on arbitrary arguments *)

NumCallers == 3     \* concurrent callers of getSourceLabels
MaxRepeats == 1     \* further calls with the same arguments

Callers == 1..NumCallers

----------------------------------------------------------------------------
(* The arguments as objects.  The store is the sequence of the objects     *)
(* allocated so far and a reference is a position in it.  An array is the  *)
(* sequence of its elements, an aggregate is its record with the reference *)
(* of its samples array in the samples field.  Samples, messages and       *)
(* strings are values: no statement of markdown.ts assigns to one.         *)

New(h, obj) == Append(h, obj)

\* the reference New hands out
Fresh(h) == Len(h) + 1

\* array.push(v)
ArrPush(h, r, v) == [h EXCEPT ![r] = Append(@, v)]

\* the aggregate behind a reference, with its samples read from the store
ValueOf(h, r) == [h[r] EXCEPT !.samples = h[h[r].samples]]

ValuesOf(h, arr) == [i \in 1..Len(h[arr]) |-> ValueOf(h, h[arr][i])]

\* the objects the caller passes: tool i has its samples array at 2i-1 and
\* its aggregate at 2i; then the arrays toolSummaries, messages,
\* filesModified and pendingTasks
ArgumentObjects(summaries, msgs, files, tasks) ==
  Flatten([i \in 1..Len(summaries) |->
             <<summaries[i].samples, [summaries[i] EXCEPT !.samples = 2 * i - 1]>>])
    \o <<[i \in 1..Len(summaries) |-> 2 * i], msgs, files, tasks>>

\* the references of the four arrays
ArgumentRefs(summaries) ==
  [toolSummaries |-> 2 * Len(summaries) + 1, messages |-> 2 * Len(summaries) + 2,
   filesModified |-> 2 * Len(summaries) + 3, pendingTasks |-> 2 * Len(summaries) + 4]

\* nsGroups.get(ns): 0 without a bucket
GroupRef(nsGroups, ns) ==
  IF \E i \in 1..Len(nsGroups) : nsGroups[i].ns = ns
    THEN nsGroups[CHOOSE i \in 1..Len(nsGroups) : nsGroups[i].ns = ns].ref
    ELSE 0

\* first loop of groupMcpByNamespace, one tool
GroupStep(st, t) ==
  LET tool == ValueOf(st.h, t)
  IN IF ~IsNamespaced(tool)
       THEN [st EXCEPT !.h = ArrPush(st.h, st.result, t)]
       ELSE LET ns == NamespaceOf(tool)
                had == GroupRef(st.nsGroups, ns)
                h1 == IF had = 0 THEN New(st.h, <<>>) ELSE st.h
                g == IF had = 0 THEN Fresh(st.h) ELSE had
            IN [h |-> ArrPush(h1, g, t),
                result |-> st.result,
                nsGroups |-> IF had = 0 THEN Append(st.nsGroups, [ns |-> ns, ref |-> g])
                                        ELSE st.nsGroups]

RECURSIVE GroupLoop(_, _)
GroupLoop(st, refs) ==
  IF refs = <<>> THEN st ELSE GroupLoop(GroupStep(st, Head(refs)), Tail(refs))

MergedSamplesArray_FirstTool(h, tools) == [h |-> h, ref |-> h[tools[1]].samples]

\* const mergedSamples: ToolSample[] = []
MergedSamplesArray(h, tools) == [h |-> New(h, <<>>), ref |-> Fresh(h)]

\* the bounded push loop on the array ms
RECURSIVE PushSamples(_, _, _)
PushSamples(h, ms, ss) ==
  IF ss = <<>> THEN h
  ELSE PushSamples(IF Len(h[ms]) < MCP_GROUP_SAMPLE_CAP THEN ArrPush(h, ms, Head(ss)) ELSE h,
                   ms, Tail(ss))

RECURSIVE PushToolSamples(_, _, _)
PushToolSamples(h, ms, tools) ==
  IF tools = <<>> THEN h
  ELSE PushToolSamples(PushSamples(h, ms, h[h[Head(tools)].samples]), ms, Tail(tools))

\* second loop of groupMcpByNamespace, one bucket
MergeStep(st, group) ==
  LET tools == st.h[group.ref]
  IN IF Len(tools) = 1
       THEN [st EXCEPT !.h = ArrPush(st.h, st.result, tools[1])]
       ELSE LET totalCount == SumSeq([i \in 1..Len(tools) |-> st.h[tools[i]].count])
                totalErrors == SumSeq([i \in 1..Len(tools) |-> ErrorsOf(st.h[tools[i]])])
                made == MergedSamplesArray(st.h, tools)
                h1 == PushToolSamples(made.h, made.ref, tools)
                merged == IF totalErrors > 0
                            THEN [name |-> McpGroupName(group.ns), count |-> totalCount,
                                  errorCount |-> totalErrors, samples |-> made.ref]
                            ELSE [name |-> McpGroupName(group.ns), count |-> totalCount,
                                  samples |-> made.ref]
            IN [st EXCEPT !.h = ArrPush(New(h1, merged), st.result, Fresh(h1))]

RECURSIVE MergeLoop(_, _)
MergeLoop(st, groups) ==
  IF groups = <<>> THEN st ELSE MergeLoop(MergeStep(st, Head(groups)), Tail(groups))

\* groupMcpByNamespace on the store: the store afterwards and the array returned
GroupInStore(h, summariesRef) ==
  LET first == GroupLoop([h |-> New(h, <<>>), result |-> Fresh(h), nsGroups |-> <<>>],
                         h[summariesRef])
      second == MergeLoop(first, first.nsGroups)
  IN [h |-> second.h, ref |-> second.result]

\* Array.prototype.sort on an array of references
RECURSIVE InsertStableRef(_, _, _)
InsertStableRef(h, x, s) ==
  IF s = <<>> THEN <<x>>
  ELSE IF SortKey(h[Head(s)]) <= SortKey(h[x])
         THEN <<Head(s)>> \o InsertStableRef(h, x, Tail(s))
         ELSE <<x>> \o s

RECURSIVE StableSortRefs(_, _)
StableSortRefs(h, s) ==
  IF s = <<>> THEN <<>>
  ELSE InsertStableRef(h, s[Len(s)], StableSortRefs(h, SubSeq(s, 1, Len(s) - 1)))

\* [...grouped].sort(...): the copy is a new array, sorted in place
SortInStore(h, grouped) ==
  LET copied == New(h, h[grouped])
  IN [h |-> [copied EXCEPT ![Fresh(h)] = StableSortRefs(copied, @)], ref |-> Fresh(h)]

\* the statements of renderToolActivity that allocate or write; the
\* rendering loop that follows only reads
ToolActivityInStore(h, summariesRef) ==
  LET grouped == GroupInStore(h, summariesRef)
  IN SortInStore(grouped.h, grouped.ref)

\* the store when generateHandoffMarkdown returns: Tool Activity is rendered
\* for a non-empty toolSummaries only
StoreAfterCall(summaries, msgs, files, tasks) ==
  LET h == ArgumentObjects(summaries, msgs, files, tasks)
  IN IF Len(summaries) > 0 THEN ToolActivityInStore(h, ArgumentRefs(summaries).toolSummaries).h ELSE h

\* the arguments as the caller finds them after the call
ArgumentsAfterCall ==
  LET h == StoreAfterCall(toolSummaries, messages, filesModified, pendingTasks)
  IN /\ toolSummaries' = ValuesOf(h, ArgumentRefs(toolSummaries).toolSummaries)
     /\ messages' = h[ArgumentRefs(toolSummaries).messages]
     /\ filesModified' = h[ArgumentRefs(toolSummaries).filesModified]
     /\ pendingTasks' = h[ArgumentRefs(toolSummaries).pendingTasks]
     /\ UNCHANGED <<mode, session, sessionNotes>>

\* no caller is inside getSourceLabels
NoCallers ==
  /\ callerPc = [p \in Callers |-> "outside"]
  /\ callerBuilt = [p \in Callers |-> {}]
  /\ callerLabels = [p \in Callers |-> {}]

InitCall(a) ==
  /\ session = a.session
  /\ messages = a.messages
  /\ filesModified = a.filesModified
  /\ pendingTasks = a.pendingTasks
  /\ toolSummaries = a.toolSummaries
  /\ sessionNotes = a.sessionNotes
  /\ mode = a.mode
  /\ sourceLabelsCache = {}
  /\ outcome = "pending"
  /\ markdown = <<>>
  /\ earlier = <<>>

Init ==
  /\ \E a \in CallArgs : InitCall(a)
  /\ NoCallers
  /\ NoCli
  /\ NoParsers

\* the body of the function: memoize the labels, assemble the lines, return them
CallBody ==
  LET cache == getSourceLabels(sourceLabelsCache)
      labels == CHOOSE l \in cache : TRUE
  IN /\ sourceLabelsCache' = cache
     /\ markdown' = generateHandoffMarkdown(session, messages, filesModified, pendingTasks,
                                            toolSummaries, sessionNotes, mode, labels)

\* the whole call
GenerateHandoffMarkdown ==
  /\ outcome = "pending"
  /\ CallBody
  /\ outcome' = "returned"
  /\ ArgumentsAfterCall
  /\ UNCHANGED <<cli, parsers, earlier, callers>>

Next == GenerateHandoffMarkdown

Spec == Init /\ [][Next]_vars

----------------------------------------------------------------------------
(* Repeated calls: the same arguments passed again, the cache now populated *)

InitDocuments ==
  /\ \E a \in DocumentArgs : InitCall(a)
  /\ NoCallers
  /\ NoCli
  /\ NoParsers

\* a further whole call with the same arguments
CallAgain ==
  /\ outcome = "returned"
  /\ Len(earlier) < MaxRepeats
  /\ earlier' = Append(earlier, markdown)
  /\ CallBody
  /\ ArgumentsAfterCall
  /\ UNCHANGED <<cli, parsers, outcome, callers>>

NextCalls == GenerateHandoffMarkdown \/ CallAgain

SpecCalls == InitDocuments /\ [][NextCalls]_vars

----------------------------------------------------------------------------
(* Concurrent callers of getSourceLabels, one statement at a time *)

InitLabels ==
  /\ InitCall(Args(DefaultSession, DefaultMessages, <<>>, <<>>, <<>>, <<>>, "inline"))
  /\ callerPc = [p \in Callers |-> "check"]
  /\ callerBuilt = [p \in Callers |-> {}]
  /\ callerLabels = [p \in Callers |-> {}]
  /\ NoCli
  /\ NoParsers

\* if (!_sourceLabels)
CheckCache(p) ==
  /\ callerPc[p] = "check"
  /\ callerPc' = [callerPc EXCEPT ![p] = IF CacheMiss(sourceLabelsCache) THEN "build"
                                                                         ELSE "return"]
  /\ UNCHANGED <<cli, parsers, arguments, sourceLabelsCache, outcome, markdown, earlier,
                 callerBuilt, callerLabels>>

\* Object.fromEntries(...)
BuildLabels(p) ==
  /\ callerPc[p] = "build"
  /\ callerBuilt' = [callerBuilt EXCEPT ![p] = {BuildSourceLabels}]
  /\ callerPc' = [callerPc EXCEPT ![p] = "store"]
  /\ UNCHANGED <<cli, parsers, arguments, sourceLabelsCache, outcome, markdown, earlier, callerLabels>>

\* _sourceLabels = ...
StoreCache(p) ==
  /\ callerPc[p] = "store"
  /\ sourceLabelsCache' = StoreLabels(sourceLabelsCache, CHOOSE m \in callerBuilt[p] : TRUE)
  /\ callerPc' = [callerPc EXCEPT ![p] = "return"]
  /\ UNCHANGED <<cli, parsers, arguments, outcome, markdown, earlier, callerBuilt, callerLabels>>

\* return _sourceLabels
ReturnLabels(p) ==
  /\ callerPc[p] = "return"
  /\ callerLabels' = [callerLabels EXCEPT ![p] = sourceLabelsCache]
  /\ callerPc' = [callerPc EXCEPT ![p] = "returned"]
  /\ UNCHANGED <<cli, parsers, arguments, sourceLabelsCache, outcome, markdown, earlier, callerBuilt>>

NextLabels ==
  \E p \in Callers : CheckCache(p) \/ BuildLabels(p) \/ StoreCache(p) \/ ReturnLabels(p)

SpecLabels == InitLabels /\ [][NextLabels]_vars

----------------------------------------------------------------------------
(* Command-line resume: selectTargetTool, checkSingleToolAutoResume and    *)
(* resumeCommand.  What the environment answers is an input of the call:   *)
(* the tools installed, the user's answer to the prompt, whether chdir and *)
(* the resume function succeed.                                            *)

\* the cancel symbol clack.select resolves to when the user cancels
Cancel == "<cancel>"

\* options?.excludeSource ?? true
ExcludeSource(options) ==
  IF Has(options, "excludeSource") THEN options.excludeSource ELSE TRUE

\* availableTools.filter((t) => !exclude || t !== session.source)
TargetOptions_KeepSource(sess, options, available) == available

TargetOptions(sess, options, available) ==
  SelectSeq(available, LAMBDA t : ~ExcludeSource(options) \/ t # sess.source)

\* what clack.select can resolve to
Answers(targetOptions) == Range(targetOptions) \cup {Cancel}

\* the process and the call as a CLI function works on them
Running ==
  [cwd |-> cwd, exitCode |-> exitCode, prompts |-> prompts, resumeCalls |-> resumeCalls,
   outcome |-> "pending", value |-> {}]

selectTargetTool(sess, options, available, answer, st) ==
  LET targetOptions == TargetOptions(sess, options, available)
  IN IF Len(targetOptions) = 0
       THEN [st EXCEPT !.outcome = "returned", !.value = {}]
     ELSE LET asked == [st EXCEPT !.prompts = Append(@, targetOptions), !.outcome = "returned"]
          IN IF answer = Cancel THEN [asked EXCEPT !.value = {}]
                                ELSE [asked EXCEPT !.value = {answer}]

ChdirAndResume_ResumeFirst(st, sess, fn, target, m, env) ==
  LET called == [st EXCEPT !.resumeCalls =
                             Append(@, [fn |-> fn, target |-> target, mode |-> m, cwd |-> st.cwd])]
  IN IF ~env.resumeOk THEN [called EXCEPT !.outcome = "threw"]
     ELSE IF sess.cwd # "" /\ ~env.chdirOk THEN [called EXCEPT !.outcome = "threw"]
     ELSE [called EXCEPT !.cwd = IF sess.cwd # "" THEN sess.cwd ELSE @,
                         !.outcome = "returned"]

\* if (session.cwd) process.chdir(session.cwd); await <resume function>(...)
ChdirAndResume(st, sess, fn, target, m, env) ==
  IF sess.cwd # "" /\ ~env.chdirOk THEN [st EXCEPT !.outcome = "threw"]
  ELSE LET dir == IF sess.cwd # "" THEN sess.cwd ELSE st.cwd
           called == [st EXCEPT !.cwd = dir,
                                !.resumeCalls =
                                  Append(@, [fn |-> fn, target |-> target, mode |-> m, cwd |-> dir])]
       IN [called EXCEPT !.outcome = IF env.resumeOk THEN "returned" ELSE "threw"]

checkSingleToolAutoResume_NativeInstalled(sess, available, env, st) ==
  IF sess.source \in Range(available)
    THEN LET r == ChdirAndResume(st, sess, "nativeResumeFn", {}, "", env)
         IN IF r.outcome = "returned" THEN [r EXCEPT !.value = {TRUE}] ELSE r
    ELSE [st EXCEPT !.outcome = "returned", !.value = {FALSE}]

checkSingleToolAutoResume(sess, available, env, st) ==
  IF Len(available) = 1 /\ available[1] = sess.source
    THEN LET r == ChdirAndResume(st, sess, "nativeResumeFn", {}, "", env)
         IN IF r.outcome = "returned" THEN [r EXCEPT !.value = {TRUE}] ELSE r
    ELSE [st EXCEPT !.outcome = "returned", !.value = {FALSE}]

\* catch (error): not a cancellation, so process.exitCode = 1
Caught(r) ==
  IF r.outcome = "threw" THEN [r EXCEPT !.outcome = "returned", !.exitCode = 1, !.value = {}]
                         ELSE r

\* found is what findSession resolved to: {} for null
resumeCommand(found, options, context, available, env, st) ==
  IF found = {}
    THEN [st EXCEPT !.exitCode = 1, !.outcome = "returned"]
  ELSE LET sess == CHOOSE f \in found : TRUE
           target == IF Has(options, "in") THEN {options["in"]} ELSE {}
           m == IF TruthyBool(options, "reference") THEN "reference" ELSE "inline"
       IN IF ~context.isTTY \/ TruthyBool(options, "noTui")
            THEN Caught(ChdirAndResume(st, sess, "resume", target, m, env))
          ELSE IF context.isTTY /\ ~TruthyStr(options, "in")
            THEN LET selected == selectTargetTool(sess, <<>>, available, env.answer, st)
                 IN IF selected.value = {}
                      THEN selected
                      ELSE Caught(ChdirAndResume([selected EXCEPT !.value = {}], sess, "resume",
                                                 selected.value, m, env))
          ELSE Caught(ChdirAndResume(st, sess, "resume", target, m, env))

\* bounded inputs of the CLI functions
CliTools == {"claude", "codex", "gemini"}

CliSessions ==
  {[source |-> so, id |-> "s-1", cwd |-> dir] : so \in {"claude", "amp"}, dir \in {"", "/work"}}

ResumeOptions ==
  {<<>>, [in |-> "codex"], [in |-> ""], [reference |-> TRUE], [noTui |-> TRUE],
   [in |-> "codex", reference |-> TRUE], [in |-> "claude", noTui |-> TRUE],
   [reference |-> TRUE, noTui |-> TRUE], [noTui |-> FALSE, reference |-> FALSE]}

CliCalls ==
  {[op |-> "selectTargetTool", session |-> se, options |-> o] :
     se \in CliSessions, o \in {<<>>, [excludeSource |-> TRUE], [excludeSource |-> FALSE]}}
    \cup {[op |-> "checkSingleToolAutoResume", session |-> se] : se \in CliSessions}
    \cup {[op |-> "resumeCommand", found |-> f, options |-> o, context |-> [isTTY |-> tty]] :
            f \in {{}} \cup {{se} : se \in CliSessions}, o \in ResumeOptions, tty \in BOOLEAN}

\* the answers of the environment to one call
Environments(targetOptions) ==
  [answer : Answers(targetOptions), chdirOk : BOOLEAN, resumeOk : BOOLEAN]

InitCli ==
  /\ cliCall \in CliCalls
  /\ availableTools \in ListsUpTo(CliTools, Cardinality(CliTools))
  /\ cwd = "/home"
  /\ exitCode = 0
  /\ prompts = <<>>
  /\ resumeCalls = <<>>
  /\ cliOutcome = "pending"
  /\ cliValue = {}
  /\ InitCall(Args(DefaultSession, DefaultMessages, <<>>, <<>>, <<>>, <<>>, "inline"))
  /\ NoCallers
  /\ NoParsers

\* the function runs to its end
Finish(r) ==
  /\ cwd' = r.cwd
  /\ exitCode' = r.exitCode
  /\ prompts' = r.prompts
  /\ resumeCalls' = r.resumeCalls
  /\ cliOutcome' = r.outcome
  /\ cliValue' = r.value
  /\ UNCHANGED <<cliCall, availableTools, assembler, parsers>>

SelectTargetTool ==
  /\ cliCall.op = "selectTargetTool"
  /\ cliOutcome = "pending"
  /\ \E answer \in Answers(TargetOptions(cliCall.session, cliCall.options, availableTools)) :
       Finish(selectTargetTool(cliCall.session, cliCall.options, availableTools, answer, Running))

CheckSingleToolAutoResume ==
  /\ cliCall.op = "checkSingleToolAutoResume"
  /\ cliOutcome = "pending"
  /\ \E env \in Environments(<<>>) :
       Finish(checkSingleToolAutoResume(cliCall.session, availableTools, env, Running))

ResumeCommand ==
  /\ cliCall.op = "resumeCommand"
  /\ cliOutcome = "pending"
  /\ \E env \in Environments(IF cliCall.found = {} THEN <<>>
                             ELSE TargetOptions(CHOOSE f \in cliCall.found : TRUE, <<>>,
                                                availableTools)) :
       Finish(resumeCommand(cliCall.found, cliCall.options, cliCall.context, availableTools,
                            env, Running))

NextCli == SelectTargetTool \/ CheckSingleToolAutoResume \/ ResumeCommand

SpecCli == InitCli /\ [][NextCli]_vars

----------------------------------------------------------------------------
(* Amp parser: extractSessionNotes.  A thread is modelled by its optional  *)
(* usageLedger.events and env.initial.tags; a tag is [key, value], the     *)
(* text being key followed by value, so tag.startsWith('model:') is        *)
(* key = "model:".                                                         *)

\* the sequences over S of length at most n
SeqsUpTo(S, n) == UNION {[1..k -> S] : k \in 0..n}

\* the first tag that starts with 'model:', sliced: {} for undefined
RECURSIVE FirstModelTag(_)
FirstModelTag(tags) ==
  IF tags = <<>> THEN {}
  ELSE IF Head(tags).key = "model:" THEN {Head(tags).value}
  ELSE FirstModelTag(Tail(tags))

extractModel(thread) ==
  IF ~Has(thread, "tags") THEN {} ELSE FirstModelTag(thread.tags)

\* event.tokens.input ?? 0
TokenOr0(event, field) ==
  IF Has(event, "tokens") /\ Has(event.tokens, field) THEN event.tokens[field] ELSE 0

LedgerStep_CountTitle(acc, event) ==
  [input |-> acc.input + TokenOr0(event, "input"),
   output |-> acc.output + TokenOr0(event, "output"),
   model |-> IF acc.model = {} /\ TruthyStr(event, "model") THEN {event.model} ELSE acc.model]

\* one iteration of the loop over the ledger events
LedgerStep(acc, event) ==
  IF Has(event, "operationType") /\ event.operationType = "title-generation" THEN acc
  ELSE [input |-> acc.input + TokenOr0(event, "input"),
        output |-> acc.output + TokenOr0(event, "output"),
        model |-> IF acc.model = {} /\ TruthyStr(event, "model") THEN {event.model}
                                                                 ELSE acc.model]

RECURSIVE LedgerLoop(_, _)
LedgerLoop(events, acc) ==
  IF events = <<>> THEN acc ELSE LedgerLoop(Tail(events), LedgerStep(acc, Head(events)))

extractSessionNotes(thread) ==
  LET tagged == {m \in extractModel(thread) : m # ""}
      start == [input |-> 0, output |-> 0, model |-> tagged]
      end == IF Has(thread, "events") THEN LedgerLoop(thread.events, start) ELSE start
      modelNote == IF end.model = {} THEN <<>> ELSE [model |-> CHOOSE m \in end.model : TRUE]
      usageNote == IF Has(thread, "events") /\ (end.input > 0 \/ end.output > 0)
                     THEN [tokenUsage |-> [input |-> end.input, output |-> end.output]]
                     ELSE <<>>
  IN modelNote @@ usageNote

\* bounded inputs
MaxEvents == 3      \* longest usage ledger

LedgerEvents ==
  { [operationType |-> "inference", tokens |-> [input |-> 150, output |-> 200],
     model |-> "sonnet"],
    [operationType |-> "title-generation", tokens |-> [input |-> 40, output |-> 10],
     model |-> "haiku"],
    [operationType |-> "inference", tokens |-> [input |-> 350]],
    [operationType |-> "inference", tokens |-> [output |-> 300], model |-> ""],
    [operationType |-> "inference"],
    [tokens |-> [input |-> 0, output |-> 0], model |-> "opus"] }

TagLists ==
  { <<[key |-> "model:", value |-> "claude-opus"]>>,
    <<[key |-> "env:", value |-> "prod"], [key |-> "model:", value |-> ""]>> }

AmpThreads ==
  {<<>>} \cup {[tags |-> t] : t \in TagLists}
    \cup {[events |-> e] : e \in SeqsUpTo(LedgerEvents, MaxEvents)}
    \cup {[events |-> e, tags |-> t] : e \in SeqsUpTo(LedgerEvents, MaxEvents), t \in TagLists}

\* only the parsers are given something
InitParsers ==
  /\ InitCall(Args(DefaultSession, DefaultMessages, <<>>, <<>>, <<>>, <<>>, "inline"))
  /\ NoCallers
  /\ NoCli
  /\ ampNotes = <<>>
  /\ copilotSummaries = <<>>
  /\ clineConversation = <<>>
  /\ clineTasks = <<>>
  /\ returned = {}

InitAmp ==
  /\ InitParsers
  /\ ampThread \in AmpThreads
  /\ copilotEvents = <<>>
  /\ clineMessages = <<>>
  /\ clineMax = 0

ExtractSessionNotes ==
  /\ "extractSessionNotes" \notin returned
  /\ ampNotes' = extractSessionNotes(ampThread)
  /\ returned' = returned \cup {"extractSessionNotes"}
  /\ UNCHANGED <<assembler, cli, ampThread, copilotEvents, copilotSummaries, clineMessages,
                 clineMax, clineConversation, clineTasks>>

NextAmp == ExtractSessionNotes

SpecAmp == InitAmp /\ [][NextAmp]_vars

----------------------------------------------------------------------------
(* Copilot parser: extractCopilotToolSummaries.  The Map of tool counts is *)
(* the sequence of its entries in insertion order; the Set of files is the *)
(* sequence of its members in insertion order.                             *)

COPILOT_SAMPLE_CAP == 5

\* (args.a as string) || (args.b as string) || ''
ArgOr(args, a, b) ==
  IF TruthyStr(args, a) THEN args[a] ELSE IF TruthyStr(args, b) THEN args[b] ELSE ""

\* the questions of the model are shorter than the 80 characters kept
buildCopilotSampleData(category, name, args) ==
  LET fp == ArgOr(args, "path", "file_path")
  IN CASE category = "shell" -> [category |-> "shell", command |-> ArgOr(args, "command", "cmd")]
       [] category = "read" -> [category |-> "read", filePath |-> fp]
       [] category = "write" -> [category |-> "write", filePath |-> fp]
       [] category = "edit" -> [category |-> "edit", filePath |-> fp]
       [] category = "grep" ->
            [category |-> "grep", pattern |-> ArgOr(args, "pattern", "query")]
              @@ (IF fp # "" THEN [targetPath |-> fp] ELSE <<>>)
       [] category = "glob" ->
            [category |-> "glob",
             pattern |-> IF TruthyStr(args, "pattern") THEN args.pattern ELSE fp]
       [] category = "search" -> [category |-> "search", query |-> ArgOr(args, "query", "query")]
       [] category = "fetch" -> [category |-> "fetch", url |-> ArgOr(args, "url", "url")]
       [] category = "task" ->
            [category |-> "task", description |-> ArgOr(args, "description", "description")]
       [] category = "ask" ->
            [category |-> "ask", question |-> ArgOr(args, "question", "question")]
       [] OTHER ->
            [category |-> "mcp", toolName |-> name]
              @@ (IF DOMAIN args # {} THEN [params |-> args] ELSE <<>>)

\* summary: argsStr ? `${name}(${argsStr})` : name
CopilotSample(category, name, args) ==
  [summary |-> [name |-> name, args |-> IF DOMAIN args # {} THEN {args} ELSE {}],
   data |-> buildCopilotSampleData(category, name, args)]

\* the position of the entry of a tool in the Map, 0 without one
EntryOf(toolCounts, name) ==
  IF \E i \in 1..Len(toolCounts) : toolCounts[i].name = name
    THEN CHOOSE i \in 1..Len(toolCounts) : toolCounts[i].name = name
    ELSE 0

CopilotStep_NoCap(acc, tr) ==
  LET name == IF Has(tr, "name") /\ tr.name # Nm(<<"">>) THEN tr.name ELSE Nm(<<"unknown">>)
      category == classifyToolName(name)
      args == IF Has(tr, "arguments") THEN tr.arguments ELSE <<>>
      fp == ArgOr(args, "path", "file_path")
      at == EntryOf(acc.toolCounts, name)
      known == IF at = 0
                 THEN Append(acc.toolCounts, [name |-> name, count |-> 0, samples |-> <<>>])
                 ELSE acc.toolCounts
      k == IF at = 0 THEN Len(known) ELSE at
      entry == known[k]
  IN IF category = Undefined THEN acc
     ELSE [toolCounts |->
             [known EXCEPT ![k] =
                [name |-> name, count |-> entry.count + 1,
                 samples |-> Append(entry.samples, CopilotSample(category, name, args))]],
           files |-> IF category \in {"write", "edit"} /\ fp # "" /\ fp \notin Range(acc.files)
                       THEN Append(acc.files, fp) ELSE acc.files]

\* one tool request: the body of the inner loop
CopilotStep(acc, tr) ==
  LET name == IF Has(tr, "name") /\ tr.name # Nm(<<"">>) THEN tr.name ELSE Nm(<<"unknown">>)
      category == classifyToolName(name)
      args == IF Has(tr, "arguments") THEN tr.arguments ELSE <<>>
      fp == ArgOr(args, "path", "file_path")
      at == EntryOf(acc.toolCounts, name)
      known == IF at = 0
                 THEN Append(acc.toolCounts, [name |-> name, count |-> 0, samples |-> <<>>])
                 ELSE acc.toolCounts
      k == IF at = 0 THEN Len(known) ELSE at
      entry == known[k]
  IN IF category = Undefined THEN acc
     ELSE [toolCounts |->
             [known EXCEPT ![k] =
                [name |-> name, count |-> entry.count + 1,
                 samples |-> IF Len(entry.samples) < COPILOT_SAMPLE_CAP
                               THEN Append(entry.samples, CopilotSample(category, name, args))
                               ELSE entry.samples]],
           files |-> IF category \in {"write", "edit"} /\ fp # "" /\ fp \notin Range(acc.files)
                       THEN Append(acc.files, fp) ELSE acc.files]

\* the tool requests the outer loop hands to the inner one, in order
CopilotRequests(events) ==
  Flatten([i \in 1..Len(events) |->
             IF events[i].type = "assistant.message" /\ Has(events[i], "toolRequests")
               THEN events[i].toolRequests ELSE <<>>])

RECURSIVE CopilotLoop(_, _)
CopilotLoop(requests, acc) ==
  IF requests = <<>> THEN acc
  ELSE CopilotLoop(Tail(requests), CopilotStep(acc, Head(requests)))

extractCopilotToolSummaries(events) ==
  LET end == CopilotLoop(CopilotRequests(events), [toolCounts |-> <<>>, files |-> <<>>])
  IN [summaries |-> end.toolCounts, filesModified |-> end.files]

\* bounded inputs
MaxCopilotEvents == 3   \* longest event log

\* request j of event i reads or edits a file of its own
Request(tool, i, j) ==
  [name |-> Nm(<<tool>>),
   arguments |-> [path |-> "f" \o ToString(i) \o "." \o ToString(j)]]

CopilotEventKinds == {"reads", "mixed", "user", "bare", "internal"}

CopilotEvent(kind, i) ==
  CASE kind = "reads" ->
         [type |-> "assistant.message",
          toolRequests |-> <<Request("Read", i, 1), Request("Read", i, 2), Request("Read", i, 3)>>]
    [] kind = "mixed" ->
         [type |-> "assistant.message",
          toolRequests |-> <<Request("Edit", i, 1),
                             [name |-> Nm(<<"Bash">>), arguments |-> [cmd |-> "ls"]],
                             Request("Read", i, 3),
                             [name |-> Nm(<<"Glob">>)]>>]
    [] kind = "user" ->
         [type |-> "user.message", toolRequests |-> <<Request("Read", i, 1)>>]
    [] kind = "bare" -> [type |-> "assistant.message"]
    [] kind = "internal" ->
         [type |-> "assistant.message",
          toolRequests |-> <<[name |-> Nm(<<"report_intent">>), arguments |-> [intent |-> "x"]],
                             [arguments |-> [path |-> "nameless"]],
                             Request("Write", i, 3)>>]

CopilotLogs ==
  {[i \in 1..Len(kinds) |-> CopilotEvent(kinds[i], i)] :
     kinds \in SeqsUpTo(CopilotEventKinds, MaxCopilotEvents)}

InitCopilot ==
  /\ InitParsers
  /\ ampThread = <<>>
  /\ copilotEvents \in CopilotLogs
  /\ clineMessages = <<>>
  /\ clineMax = 0

ExtractCopilotToolSummaries ==
  /\ "extractCopilotToolSummaries" \notin returned
  /\ copilotSummaries' = extractCopilotToolSummaries(copilotEvents)
  /\ returned' = returned \cup {"extractCopilotToolSummaries"}
  /\ UNCHANGED <<assembler, cli, ampThread, ampNotes, copilotEvents, clineMessages,
                 clineMax, clineConversation, clineTasks>>

NextCopilot == ExtractCopilotToolSummaries

SpecCopilot == InitCopilot /\ [][NextCopilot]_vars

----------------------------------------------------------------------------
(* Cline parser: classifyRole and buildConversation.  A text is the        *)
(* sequence of its characters; null is the string "null".                  *)

Null == "null"

classifyRole(msg) ==
  IF msg.type # "say" THEN Null
  ELSE CASE msg.say = "user_feedback" -> "user"
         [] msg.say = "text" ->
              IF Has(msg, "partial") /\ msg.partial THEN "assistant" ELSE "user"
         [] msg.say = "completion_result" -> "assistant"
         [] msg.say = "reasoning" -> "assistant"
         [] OTHER -> Null

IsSpace(c) == c \in {" ", "\t", "\n"}

RECURSIVE TrimStart(_)
TrimStart(t) == IF t # <<>> /\ IsSpace(Head(t)) THEN TrimStart(Tail(t)) ELSE t

RECURSIVE TrimEnd(_)
TrimEnd(t) ==
  IF t # <<>> /\ IsSpace(t[Len(t)]) THEN TrimEnd(SubSeq(t, 1, Len(t) - 1)) ELSE t

\* String.prototype.trim
Trim(t) == TrimEnd(TrimStart(t))

\* msg.partial === true
IsPartial(msg) == Has(msg, "partial") /\ msg.partial

\* the condition under which the last entry is replaced
Replaces_AnyAssistant(st, msg, role) ==
  /\ role = "assistant"
  /\ msg.say = "text"
  /\ IsPartial(msg)
  /\ Len(st.result) > 0
  /\ st.result[Len(st.result)].role = "assistant"

Replaces(st, msg, role) ==
  /\ role = "assistant"
  /\ msg.say = "text"
  /\ IsPartial(msg)
  /\ Len(st.result) > 0
  /\ st.result[Len(st.result)].role = "assistant"
  /\ st.lastSay = "text"
  /\ st.lastPartial

\* is the message skipped before anything is recorded?
Skipped(msg) ==
  \/ classifyRole(msg) = Null
  \/ ~Has(msg, "text")
  \/ Trim(msg.text) = <<>>

\* one iteration of the loop
ConversationStep(st, msg) ==
  IF Skipped(msg) THEN st
  ELSE LET role == classifyRole(msg)
           entry == [role |-> role, content |-> Trim(msg.text),
                     timestamp |-> IF Has(msg, "ts") /\ msg.ts # 0 THEN {msg.ts} ELSE {}]
       IN [result |-> IF Replaces(st, msg, role)
                        THEN [st.result EXCEPT ![Len(st.result)] = entry]
                        ELSE Append(st.result, entry),
           lastSay |-> msg.say,
           lastPartial |-> IsPartial(msg)]

\* the loop's variables after the first k messages
RECURSIVE ConversationAfter(_, _)
ConversationAfter(msgs, k) ==
  IF k = 0 THEN [result |-> <<>>, lastSay |-> Undefined, lastPartial |-> FALSE]
  ELSE ConversationStep(ConversationAfter(msgs, k - 1), msgs[k])

buildConversation(msgs) == ConversationAfter(msgs, Len(msgs)).result

\* bounded inputs
MaxClineMessages == 3   \* longest raw message list

ClineShapes ==
  {[type |-> "say", say |-> "text", partial |-> TRUE, text |-> <<"a">>],
   [type |-> "say", say |-> "text", partial |-> TRUE, text |-> <<" ", "b", " ">>],
   [type |-> "say", say |-> "text", partial |-> TRUE, text |-> <<" ">>],
   [type |-> "say", say |-> "text", partial |-> FALSE, text |-> <<"u">>],
   [type |-> "say", say |-> "reasoning", text |-> <<"r">>],
   [type |-> "say", say |-> "completion_result", text |-> <<"c", "\n">>],
   [type |-> "say", say |-> "user_feedback", text |-> <<"f">>],
   [type |-> "say", say |-> "api_req_started", text |-> <<"x">>],
   [type |-> "ask", ask |-> "followup", text |-> <<"q">>]}

\* message i carries the timestamp i
Stamped(shapes) == [i \in 1..Len(shapes) |-> shapes[i] @@ [ts |-> i]]

ClineLogs == {Stamped(shapes) : shapes \in SeqsUpTo(ClineShapes, MaxClineMessages)}

InitConversation ==
  /\ InitParsers
  /\ ampThread = <<>>
  /\ copilotEvents = <<>>
  /\ clineMessages \in ClineLogs
  /\ clineMax = 0

BuildConversation ==
  /\ "buildConversation" \notin returned
  /\ clineConversation' = buildConversation(clineMessages)
  /\ returned' = returned \cup {"buildConversation"}
  /\ UNCHANGED <<assembler, cli, ampThread, ampNotes, copilotEvents, copilotSummaries,
                 clineMessages, clineMax, clineTasks>>

NextConversation == BuildConversation

SpecConversation == InitConversation /\ [][NextConversation]_vars

----------------------------------------------------------------------------
(* Cline parser: extractPendingTasks.  The text of a message is the        *)
(* sequence of its lines (what split('\n') returns), a line the sequence   *)
(* of its characters.                                                      *)

TASK_CHARS == 200

\* truncate(s, n) of utils/tool-summarizer: a string of at most n characters
\* is returned as it is
truncate(str, n) == IF Len(str) <= n THEN str ELSE SubSeq(str, 1, n)

LowerOf(c) ==
  CASE c = "T" -> "t" [] c = "O" -> "o" [] c = "D" -> "d" [] c = "N" -> "n"
    [] c = "E" -> "e" [] c = "X" -> "x" [] c = "S" -> "s" [] c = "P" -> "p"
    [] OTHER -> c

\* String.prototype.toLowerCase, on the letters the inputs use
toLowerCase(str) == [i \in 1..Len(str) |-> LowerOf(str[i])]

startsWith(str, prefix) ==
  Len(str) >= Len(prefix) /\ SubSeq(str, 1, Len(prefix)) = prefix

includes(str, part) ==
  \E i \in 1..Len(str) :
    i + Len(part) - 1 <= Len(str) /\ SubSeq(str, i, i + Len(part) - 1) = part

Checkbox == <<"-", " ", "[", " ", "]">>
TodoColon == <<"t", "o", "d", "o", ":">>
NextStepWords == <<"n", "e", "x", "t", " ", "s", "t", "e", "p">>

\* the test a line has to pass to become a task
IsTaskLine(line) ==
  LET trimmed == Trim(line)
      lower == toLowerCase(trimmed)
  IN /\ \/ startsWith(lower, Checkbox)
        \/ startsWith(lower, TodoColon)
        \/ includes(lower, NextStepWords)
     /\ Len(trimmed) > 5

\* the inner loop: the lines of one message, pushed while fewer than max are held
RECURSIVE ScanLines(_, _, _)
ScanLines(tasks, lines, max) ==
  IF lines = <<>> \/ Len(tasks) >= max THEN tasks
  ELSE ScanLines(IF IsTaskLine(Head(lines))
                   THEN Append(tasks, truncate(Trim(Head(lines)), TASK_CHARS))
                   ELSE tasks,
                 Tail(lines), max)

\* the message passes the three tests at the top of the outer loop
IsTaskSource(msg) ==
  /\ msg.type = "say"
  /\ msg.say \in {"completion_result", "text"}
  /\ Has(msg, "text") /\ msg.text # <<<<>>>>

StopsAfter_Never(tasks) == FALSE

\* if (tasks.length > 0) break
StopsAfter(tasks) == Len(tasks) > 0

\* the outer loop from index i down (i counts from 1)
RECURSIVE PendingLoop(_, _, _, _)
PendingLoop(msgs, i, tasks, max) ==
  IF i < 1 \/ Len(tasks) >= max THEN tasks
  ELSE IF ~IsTaskSource(msgs[i]) THEN PendingLoop(msgs, i - 1, tasks, max)
  ELSE LET found == ScanLines(tasks, msgs[i].text, max)
       IN IF StopsAfter(found) THEN found ELSE PendingLoop(msgs, i - 1, found, max)

extractPendingTasks(msgs, max) == PendingLoop(msgs, Len(msgs), <<>>, max)

\* bounded inputs
MaxPending == 3         \* largest max argument
MaxTaskMessages == 3    \* longest raw message list

TaskA == <<"-", " ", "[", " ", "]", " ", "a">>
TaskB == <<"T", "O", "D", "O", ":", " ", "b">>
TaskC == <<" ", "-", " ", "[", " ", "]", " ", "c", " ">>
TaskD == <<"a", " ", "N", "e", "x", "t", " ", "S", "t", "e", "p">>
TaskE == <<"-", " ", "[", " ", "]", " ", "e">>
ShortBox == <<"-", " ", "[", " ", "]">>
ShortTodo == <<"t", "o", "d", "o", ":">>
PlainLine == <<"a", "l", "l", " ", "d", "o", "n", "e">>

TaskShapes ==
  {[type |-> "say", say |-> "completion_result", text |-> <<TaskA, PlainLine, TaskB>>],
   [type |-> "say", say |-> "text", text |-> <<PlainLine>>],
   [type |-> "say", say |-> "text", partial |-> TRUE, text |-> <<ShortBox, TaskC, ShortTodo>>],
   [type |-> "say", say |-> "text", text |-> <<TaskD, TaskB, PlainLine, TaskE, TaskA>>],
   [type |-> "say", say |-> "reasoning", text |-> <<TaskE>>],
   [type |-> "ask", ask |-> "followup", text |-> <<TaskE>>],
   [type |-> "say", say |-> "completion_result"],
   [type |-> "say", say |-> "completion_result", text |-> <<<<>>>>]}

InitPendingTasks ==
  /\ InitParsers
  /\ ampThread = <<>>
  /\ copilotEvents = <<>>
  /\ clineMessages \in SeqsUpTo(TaskShapes, MaxTaskMessages)
  /\ clineMax \in 0..MaxPending

ExtractPendingTasks ==
  /\ "extractPendingTasks" \notin returned
  /\ clineTasks' = extractPendingTasks(clineMessages, clineMax)
  /\ returned' = returned \cup {"extractPendingTasks"}
  /\ UNCHANGED <<assembler, cli, ampThread, ampNotes, copilotEvents, copilotSummaries,
                 clineMessages, clineMax, clineConversation>>

NextPendingTasks == ExtractPendingTasks

SpecPendingTasks == InitPendingTasks /\ [][NextPendingTasks]_vars

----------------------------------------------------------------------------
(* Vocabulary of the properties *)

Done == outcome = "returned"

\* the caps the call selected
Caps == SelectCaps(mode)

Grouped == groupMcpByNamespace(toolSummaries)
Sorted == SortedSummaries(toolSummaries)

Profiles == {INLINE_CAPS, REFERENCE_CAPS}

\* kinds of the first line of a rendered sample
SampleStartKinds ==
  {"summary", "shellCmd", "writeFile", "editFile", "readEntry", "grepEntry", "globEntry",
   "compact"}

LinesOfKind(lines, kinds) == SelectSeq(lines, LAMBDA l : l.kind \in kinds)

\* number of samples a section renders
DetailCount(section) == Len(LinesOfKind(section, SampleStartKinds))

\* the N of the section's "...and N more" line, 0 without such a line
OverflowN(section) ==
  LET o == LinesOfKind(section, {"overflow"})
  IN IF o = <<>> THEN 0 ELSE o[1].nums[1]

CategoryLabel ==
  [shell |-> "Shell", write |-> "Write", edit |-> "Edit", read |-> "Read", grep |-> "Grep",
   glob |-> "Glob", search |-> "Search", fetch |-> "Fetch", task |-> "Task", ask |-> "Ask",
   mcp |-> "MCP"]

\* the fixed category order of the Tool Activity section
CategoryRank ==
  [shell |-> 0, write |-> 1, edit |-> 2, read |-> 3, grep |-> 4, glob |-> 5,
   search |-> 6, fetch |-> 7, task |-> 8, ask |-> 9, mcp |-> 10]

\* the category a heading line announces, "none" when it is no category label
HeadingCategory(h) ==
  IF Len(h.strs) = 2 /\ h.strs[1] = "" /\ \E c \in Categories : CategoryLabel[c] = h.strs[2]
    THEN CHOOSE c \in Categories : CategoryLabel[c] = h.strs[2]
    ELSE "none"

\* the category of the section an aggregate is rendered under
SectionCategory(tool) == HeadingCategory(renderSection(tool, Caps)[1])

IsMerged(e) == e.name.prefix = "MCP: "

Namespaces(in) == {NamespaceOf(in[i]) : i \in {j \in 1..Len(in) : IsNamespaced(in[j])}}

Members(in, ns) == {i \in 1..Len(in) : IsNamespaced(in[i]) /\ NamespaceOf(in[i]) = ns}

CountOver(in, idx) == SumSeq([k \in 1..Len(in) |-> IF k \in idx THEN in[k].count ELSE 0])

Occurrences(seq, x) == Cardinality({i \in 1..Len(seq) : seq[i] = x})

----------------------------------------------------------------------------
(* C1: in every section, under either caps profile, the samples rendered  *)
(* plus the N of the "...and N more" line (0 without one) is the          *)
(* aggregate's count; the same for the fallback renderer.                 *)
C1_CountConserved ==
  Done =>
    \A i \in 1..Len(Sorted) :
      /\ \A caps \in Profiles :
           LET sec == renderSection(Sorted[i], caps)
           IN DetailCount(sec) + OverflowN(sec) = Sorted[i].count
      /\ LET sec == renderFallbackSection(Sorted[i])
         IN DetailCount(sec) + OverflowN(sec) = Sorted[i].count

\* a section where the display cap cuts the samples and an overflow line is printed
C1_Witness ==
  /\ Done
  /\ \E i \in 1..Len(Sorted) :
       LET sec == renderSection(Sorted[i], Caps)
       IN /\ OverflowN(sec) > 0
          /\ DetailCount(sec) > 0
          /\ DetailCount(sec) < Len(Sorted[i].samples)

(* C2: the sections of the document appear in category-priority order,    *)
(* the category being the one each aggregate is rendered under, and       *)
(* aggregates of one category keep their order from the grouped list.     *)
C2_SectionsInCategoryOrder ==
  Done =>
    LET heads == LinesOfKind(markdown, {"heading"})
    IN /\ \A i, j \in 1..Len(heads) :
            i < j => CategoryRank[HeadingCategory(heads[i])] <= CategoryRank[HeadingCategory(heads[j])]
       /\ \A c \in Categories :
            SelectSeq(Sorted, LAMBDA t : detectCategory(t) = c)
              = SelectSeq(Grouped, LAMBDA t : detectCategory(t) = c)

(* C3: a namespace with one member tool is not merged and the member is   *)
(* in the output unchanged; a namespace with two or more members is       *)
(* replaced by exactly one synthetic entry whose count is the sum of the  *)
(* members' counts; the total count is preserved.                         *)
C3_GroupingThreshold ==
  Done =>
    LET in == toolSummaries
        out == Grouped
    IN /\ \A ns \in Namespaces(in) :
            LET M == Members(in, ns)
                merged == {j \in 1..Len(out) : out[j].name = McpGroupName(ns)}
            IN IF Cardinality(M) = 1
                 THEN /\ merged = {}
                      /\ \A i \in M : Occurrences(out, in[i]) = 1
                 ELSE /\ Cardinality(merged) = 1
                      /\ \A j \in merged : out[j].count = CountOver(in, M)
                      /\ \A i \in M : in[i] \notin Range(out)
       /\ CountOver(out, 1..Len(out)) = CountOver(in, 1..Len(in))

\* one namespace with a single member and one with two members, both grouped
C3_Witness ==
  /\ Done
  /\ \E a, b \in Namespaces(toolSummaries) :
       /\ Cardinality(Members(toolSummaries, a)) = 1
       /\ Cardinality(Members(toolSummaries, b)) >= 2

\* entries the second loop emits: a single-member tool or a merged group
IsBucketEntry(e) == IsMerged(e) \/ IsNamespaced(e)

EntryNamespace(e) == IF IsMerged(e) THEN e.name.parts[1] ELSE NamespaceOf(e)

FirstSeen(in, ns) == CHOOSE i \in Members(in, ns) : \A j \in Members(in, ns) : i <= j

\* the entries of a list satisfying a test, with their order
InOrder(seq, Test(_)) == SelectSeq(seq, Test)

(* C4 as stated: every unmerged entry (not bucketed, or the single member *)
(* of its namespace) precedes every merged entry; unmerged entries keep   *)
(* their input order; merged entries are in first-seen namespace order.   *)
C4_UnmergedBeforeMerged ==
  Done =>
    LET in == toolSummaries
        out == Grouped
    IN /\ \A i, j \in 1..Len(out) : IsMerged(out[i]) /\ ~IsMerged(out[j]) => j < i
       /\ InOrder(out, LAMBDA e : ~IsMerged(e))
            = InOrder(in, LAMBDA t : ~IsNamespaced(t)
                                       \/ Cardinality(Members(in, NamespaceOf(t))) = 1)
       /\ \A i, j \in 1..Len(out) :
            IsMerged(out[i]) /\ IsMerged(out[j]) /\ i < j
              => FirstSeen(in, EntryNamespace(out[i])) < FirstSeen(in, EntryNamespace(out[j]))

(* C4 amended: every entry that was not bucketed (non-mcp aggregates and  *)
(* mcp aggregates outside the naming scheme) precedes every bucket entry  *)
(* and these keep their input order; the bucket entries, single-member    *)
(* tools and merged groups alike, follow in first-seen namespace order.   *)
C4_PassThroughBeforeBuckets ==
  Done =>
    LET in == toolSummaries
        out == Grouped
    IN /\ \A i, j \in 1..Len(out) : IsBucketEntry(out[i]) /\ ~IsBucketEntry(out[j]) => j < i
       /\ InOrder(out, LAMBDA e : ~IsBucketEntry(e)) = InOrder(in, LAMBDA t : ~IsNamespaced(t))
       /\ \A i, j \in 1..Len(out) :
            IsBucketEntry(out[i]) /\ IsBucketEntry(out[j]) /\ i < j
              => FirstSeen(in, EntryNamespace(out[i])) < FirstSeen(in, EntryNamespace(out[j]))

\* a single-member tool emitted after a merged group
C4_Witness ==
  /\ Done
  /\ \E i, j \in 1..Len(Grouped) :
       i < j /\ IsMerged(Grouped[i]) /\ IsNamespaced(Grouped[j])

(* C5: grouping the grouped list again merges nothing more: the second    *)
(* result has exactly the entries of the first, each as often.            *)
C5_RegroupSameEntries ==
  Done =>
    LET out == Grouped
        again == groupMcpByNamespace(out)
    IN /\ Len(again) = Len(out)
       /\ \A e \in Range(out) \cup Range(again) : Occurrences(again, e) = Occurrences(out, e)

\* the grouped list holds a merged group and a single-member tool
C5_Witness ==
  /\ Done
  /\ \E i, j \in 1..Len(Grouped) : IsMerged(Grouped[i]) /\ IsNamespaced(Grouped[j])

(* C6: a merged group's samples are the first min(5, total) of the        *)
(* members' samples concatenated in encounter order; its errorCount is    *)
(* the sum of the members' error counts and is absent when that is zero.  *)
C6_MergedSamplesAndErrors ==
  Done =>
    LET in == toolSummaries
    IN \A ns \in Namespaces(in) :
         Cardinality(Members(in, ns)) >= 2 =>
           \A e \in Range(Grouped) :
             e.name = McpGroupName(ns) =>
               LET members == SelectSeq(in, LAMBDA t : IsNamespaced(t) /\ NamespaceOf(t) = ns)
                   all == Flatten([k \in 1..Len(members) |-> members[k].samples])
                   errors == SumSeq([k \in 1..Len(members) |-> ErrorsOf(members[k])])
               IN /\ e.samples = SubSeq(all, 1, Min(5, Len(all)))
                  /\ errors = 0 => ~Has(e, "errorCount")
                  /\ errors > 0 => Has(e, "errorCount") /\ e.errorCount = errors

\* a merged group that dropped samples and carries an error count
C6_Witness ==
  /\ Done
  /\ \E e \in Range(Grouped) :
       /\ IsMerged(e)
       /\ Len(e.samples) = 5
       /\ e.count > 5
       /\ Has(e, "errorCount")
       /\ \E t \in Range(toolSummaries) :
            IsNamespaced(t) /\ NamespaceOf(t) = EntryNamespace(e) /\ ~Has(t, "errorCount")

\* the name classifier's verdict, with the catch-all
NameCategory(name) == IF classifyToolName(name) # Undefined THEN classifyToolName(name) ELSE "mcp"

(* C7 as stated: a structured payload on a sample decides the category of *)
(* the aggregate's section whatever the name; without any payload the     *)
(* name classifier does, "mcp" when it matches nothing.                   *)
C7_AnyPayloadDecides ==
  Done =>
    \A t \in Range(Sorted) :
      LET withData == {k \in 1..Len(t.samples) : Has(t.samples[k], "data")}
      IN /\ SectionCategory(t) \in Categories
         /\ withData # {} =>
              \E k \in withData : SectionCategory(t) = t.samples[k].data.category
         /\ withData = {} => SectionCategory(t) = NameCategory(t.name)

(* C7 amended: the payload of the FIRST sample decides the category when  *)
(* that sample has one; otherwise (no sample, or a first sample without   *)
(* payload) the name classifier does, "mcp" when it matches nothing; the  *)
(* result is always one of the categories.                                *)
C7_FirstPayloadDecides ==
  Done =>
    \A t \in Range(Sorted) :
      /\ SectionCategory(t) \in Categories
      /\ SectionCategory(t) =
           IF t.samples # <<>> /\ Has(t.samples[1], "data")
             THEN t.samples[1].data.category
             ELSE NameCategory(t.name)

\* an aggregate whose first sample has no payload while a later one has, of another category
C7_Witness ==
  /\ Done
  /\ \E t \in Range(Sorted) :
       /\ Len(t.samples) >= 2
       /\ ~Has(t.samples[1], "data")
       /\ \E k \in 2..Len(t.samples) :
            Has(t.samples[k], "data") /\ t.samples[k].data.category # SectionCategory(t)

(* C8: in every section, a rendered sample without structured data, or   *)
(* whose data category is not the section's, is rendered as its summary.  *)
C8_MismatchRendersSummary ==
  Done =>
    \A t \in Range(Sorted) :
      LET starts == LinesOfKind(renderSection(t, Caps), SampleStartKinds)
      IN \A k \in 1..Len(starts) :
           ~IsCat(t.samples[k], SectionCategory(t)) =>
             starts[k].kind = "summary" /\ starts[k].text = t.samples[k].summary

(* C9: a call whose mode is neither "inline" nor "reference" fails with   *)
(* an error instead of returning a document.                              *)
C9_UnknownModeFailsFast ==
  (outcome # "pending" /\ mode \notin {"inline", "reference"}) => outcome = "threw"

(* C10: every reference cap is at least the inline cap, and each section  *)
(* shows at least as many samples, diff lines and output lines under the  *)
(* reference caps as under the inline caps.                               *)
C10_ReferenceNoLessDetail ==
  /\ \A c \in CapNames : REFERENCE_CAPS[c] >= INLINE_CAPS[c]
  /\ Done =>
       \A t \in Range(Sorted) :
         LET inl == renderSection(t, INLINE_CAPS)
             ref == renderSection(t, REFERENCE_CAPS)
         IN /\ DetailCount(ref) >= DetailCount(inl)
            /\ Len(LinesOfKind(ref, {"diff"})) >= Len(LinesOfKind(inl, {"diff"}))
            /\ Len(LinesOfKind(ref, {"out"})) >= Len(LinesOfKind(inl, {"out"}))

\* a reference-mode document with a section showing more samples than inline would
C10_Witness ==
  /\ Done
  /\ mode = "reference"
  /\ \E t \in Range(Sorted) :
       DetailCount(renderSection(t, REFERENCE_CAPS)) > DetailCount(renderSection(t, INLINE_CAPS))

----------------------------------------------------------------------------
(* Vocabulary of the document claims *)

\* the titles of the document's second-level section headings, in document order
SectionTitles ==
  LET h == LinesOfKind(markdown, {"h2"}) IN [i \in 1..Len(h) |-> h[i].text]

\* the lines of the section with the given title: from its heading up to the next
\* second-level heading or the closing rule
SectionLines(title) ==
  LET starts == {i \in 1..Len(markdown) : markdown[i] = H2(title)}
  IN IF starts = {} THEN <<>>
     ELSE LET from == CHOOSE i \in starts : TRUE
              stops == {j \in (from + 1)..Len(markdown) :
                          markdown[j].kind = "h2" \/ markdown[j] = Lit("---")}
              to == CHOOSE j \in stops : \A k \in stops : j <= k
          IN SubSeq(markdown, from, to - 1)

OptionalSections ==
  <<"Summary", "Session Context (Compacted)", "Tool Activity", "Key Decisions",
    "Recent Conversation", "Files Modified", "Pending Tasks">>

\* whether the arguments carry data for the section
HasSourceData(title) ==
  CASE title = "Summary" -> Has(session, "summary") /\ session.summary # ""
    [] title = "Session Context (Compacted)" ->
         Has(sessionNotes, "compactSummary") /\ sessionNotes.compactSummary # ""
    [] title = "Tool Activity" -> toolSummaries # <<>>
    [] title = "Key Decisions" ->
         Has(sessionNotes, "reasoning") /\ sessionNotes.reasoning # <<>>
    [] title = "Recent Conversation" -> messages # <<>>
    [] title = "Files Modified" -> filesModified # <<>>
    [] title = "Pending Tasks" -> pendingTasks # <<>>

\* the kinds of line the assembler itself pushes
DocumentKinds ==
  {"literal", "h2", "row", "quote", "bullet", "h3", "message", "file", "task", "blank"}

----------------------------------------------------------------------------
----------------------------------------------------------------------------
(* C12: the document has the Tool Activity heading exactly when the list   *)
(* of tool summaries is non-empty, and with an empty list every line of    *)
(* the document is one the assembler pushes itself: none comes from a tool *)
(* section renderer.                                                       *)
C12_ToolActivityIffSummaries ==
  Done =>
    /\ (\E i \in 1..Len(markdown) : markdown[i] = H2("Tool Activity")) <=> Len(toolSummaries) > 0
    /\ Len(toolSummaries) = 0 => \A i \in 1..Len(markdown) : markdown[i].kind \in DocumentKinds
    /\ Len(toolSummaries) > 0 =>
         \E i \in 1..Len(markdown) : markdown[i].kind \notin DocumentKinds

\* no tool summaries, while every other optional section is there
C12_Witness ==
  /\ Done
  /\ toolSummaries = <<>>
  /\ SectionTitles = <<"Summary", "Session Context (Compacted)", "Key Decisions",
                       "Recent Conversation", "Files Modified", "Pending Tasks">>

----------------------------------------------------------------------------
(* C13: the Recent Conversation section renders the last min(10, n) of the *)
(* n messages, in their order, each under its role heading; a content of   *)
(* more than 500 characters is cut to its first 500 and followed by the    *)
(* ellipsis, any other content is rendered whole without the ellipsis.     *)
C13_LastTenMessagesTruncated ==
  Done =>
    LET section == SectionLines("Recent Conversation")
        roles == LinesOfKind(section, {"h3"})
        contents == LinesOfKind(section, {"message"})
        n == Len(messages)
        k == IF n < 10 THEN n ELSE 10
    IN /\ Len(contents) = k
       /\ Len(roles) = k
       /\ Len(LinesOfKind(markdown, {"message", "h3"})) = 2 * k
       /\ \A i \in 1..k :
            LET msg == messages[n - k + i]
            IN /\ roles[i].text = (IF msg.role = "user" THEN "User" ELSE "Assistant")
               /\ contents[i].text = msg.content.text
               /\ msg.content.length > 500 =>
                    contents[i].nums = <<500>> /\ contents[i].strs = <<"ELLIPSIS">>
               /\ msg.content.length <= 500 =>
                    contents[i].nums = <<msg.content.length>> /\ contents[i].strs = <<>>

\* more than ten messages, with contents below, at and above 500 characters among
\* the ten rendered
C13_Witness ==
  /\ Done
  /\ Len(messages) > 10
  /\ messages[1] # messages[Len(messages) - 9]
  /\ \E i, j, k \in (Len(messages) - 9)..Len(messages) :
       /\ messages[i].content.length < 500
       /\ messages[j].content.length = 500
       /\ messages[k].content.length > 500

----------------------------------------------------------------------------
(* C14: a call repeated with the same arguments and mode returns the same  *)
(* string as every earlier call; the first call found the label cache      *)
(* empty and built it, the repeated call found it populated.               *)
C14_RepeatedCallSameOutput ==
  \A i \in 1..Len(earlier) : earlier[i] = markdown

\* a repeated call on a session whose source has a registered label, so that the
\* label map is used by both calls
C14_Witness ==
  /\ Len(earlier) >= 1
  /\ sourceLabelsCache = {BuildSourceLabels}
  /\ session.source \in DOMAIN BuildSourceLabels
  /\ Len(markdown) > 0

----------------------------------------------------------------------------
(* Vocabulary of the sample claims *)

\* the samples a section of the given category renders in detail, as pairs
\* <<sample, its rendered lines>>, over the aggregates of the call
DetailedSamples(category, detailedCap, render(_)) ==
  UNION {{<<t.samples[k], render(t.samples[k])>> :
            k \in {j \in 1..Min(Len(t.samples), detailedCap) : IsCat(t.samples[j], category)}} :
         t \in {u \in Range(Sorted) : SectionCategory(u) = category}}

RenderedWrites ==
  DetailedSamples("write", Caps.writeEditDetailed,
                  LAMBDA s : renderWriteSample(s, Caps.writeEditDiffLines))

RenderedEdits ==
  DetailedSamples("edit", Caps.writeEditDetailed,
                  LAMBDA s : renderEditSample(s, Caps.writeEditDiffLines))

RenderedShells ==
  DetailedSamples("shell", Caps.shellDetailed,
                  LAMBDA s : renderShellSample(s, Caps.shellStdoutLines))

\* a unified diff opens with the two file header lines; the rest is its body
FileHeaderLines(diff) ==
  {i \in 1..Min(2, Len(diff)) : diff[i] \in {"--- a/f", "+++ b/f"}}

DiffBody(diff) == SelectSeq([i \in 1..Len(diff) |-> <<i, diff[i]>>],
                            LAMBDA e : e[1] \notin FileHeaderLines(diff))

----------------------------------------------------------------------------
(* C15: for a write or edit sample with a diff, rendered in detail, the    *)
(* two file header lines are dropped, min(cap, B) of the B body lines are  *)
(* shown, and the "+N lines truncated" note appears exactly when B > cap,  *)
(* with N = B - cap, so that lines shown plus N is B.                      *)
C15_DiffBodyShownOrCounted ==
  Done =>
    \A r \in RenderedWrites \cup RenderedEdits :
      Has(r[1].data, "diff") /\ r[1].data.diff # <<"">> =>
        LET B == Len(DiffBody(r[1].data.diff))
            cap == Caps.writeEditDiffLines
            shown == Len(LinesOfKind(r[2], {"diff"}))
            notes == LinesOfKind(r[2], {"truncated"})
            N == IF notes = <<>> THEN 0 ELSE notes[1].nums[1]
        IN /\ shown = Min(cap, B)
           /\ notes # <<>> <=> B > cap
           /\ B > cap => N = B - cap
           /\ shown + N = B

----------------------------------------------------------------------------
(* C16: a shell sample rendered in detail has at most one fenced block, of *)
(* at most shellStdoutLines lines: the first lines of the stdout tail when *)
(* the sample has one, otherwise the first lines of the error message when *)
(* the call errored and has one, otherwise no block.                       *)
C16_OneOutputBlock ==
  Done =>
    \A r \in RenderedShells :
      LET d == r[1].data
          fences == Len(LinesOfKind(r[2], {"fenceOpen"}))
          out == LinesOfKind(r[2], {"out"})
          text == [i \in 1..Len(out) |-> out[i].text]
          hasStdout == Has(d, "stdoutTail") /\ d.stdoutTail # <<"">>
          hasError == /\ Has(d, "errored") /\ d.errored
                      /\ Has(d, "errorMessage") /\ d.errorMessage # <<"">>
          firstLines(t) == [i \in 1..Min(Len(t), Caps.shellStdoutLines) |-> t[i]]
      IN /\ fences <= 1
         /\ fences = Len(LinesOfKind(r[2], {"fenceClose"}))
         /\ Len(out) <= Caps.shellStdoutLines
         /\ hasStdout => fences = 1 /\ text = firstLines(d.stdoutTail)
         /\ ~hasStdout /\ hasError => fences = 1 /\ text = firstLines(d.errorMessage)
         /\ ~hasStdout /\ ~hasError => fences = 0 /\ out = <<>>

\* a sample with both a stdout tail and an error message of an errored call: one
\* block, holding the stdout tail
C16_Witness ==
  /\ Done
  /\ \E r \in RenderedShells :
       /\ Has(r[1].data, "stdoutTail") /\ r[1].data.stdoutTail # <<"">>
       /\ Has(r[1].data, "errored") /\ r[1].data.errored
       /\ Has(r[1].data, "errorMessage") /\ r[1].data.errorMessage # r[1].data.stdoutTail
       /\ Len(LinesOfKind(r[2], {"fenceOpen"})) = 1
  /\ \E r \in RenderedShells :
       /\ Has(r[1].data, "stdoutTail")
       /\ Len(r[1].data.stdoutTail) > Caps.shellStdoutLines
       /\ Len(LinesOfKind(r[2], {"out"})) = Caps.shellStdoutLines

----------------------------------------------------------------------------
(* C17: in the section of a shell aggregate whose count exceeds the number *)
(* of samples shown there is one overflow line, "...and N more shell       *)
(* calls" with N = count - shown, and it ends in " (all exit 0)" exactly   *)
(* when the aggregate has no errorCount or an errorCount of zero; without  *)
(* an excess there is no overflow line.                                    *)
C17_ShellOverflowLine ==
  Done =>
    \A t \in Range(Sorted) :
      SectionCategory(t) = "shell" =>
        LET section == renderSection(t, Caps)
            shown == DetailCount(section)
            over == LinesOfKind(section, {"overflow"})
            noErrors == ~Has(t, "errorCount") \/ t.errorCount = 0
        IN /\ shown = Min(Len(t.samples), Caps.shellDetailed)
           /\ t.count <= shown => over = <<>>
           /\ t.count > shown =>
                /\ Len(over) = 1
                /\ over[1].text = "shell calls"
                /\ over[1].nums = <<t.count - shown>>
                /\ noErrors => over[1].strs = <<" (all exit 0)">>
                /\ ~noErrors => over[1].strs = <<"">>

\* count 7 with 5 samples and no errorCount under the inline caps: 5 samples shown
\* and "...and 2 more shell calls (all exit 0)"
C17_Witness ==
  /\ Done
  /\ Caps = INLINE_CAPS
  /\ \E t \in Range(Sorted) :
       /\ SectionCategory(t) = "shell"
       /\ t.count = 7 /\ Len(t.samples) = 5 /\ ~Has(t, "errorCount")
       /\ DetailCount(renderSection(t, Caps)) = 5
       /\ LinesOfKind(renderSection(t, Caps), {"overflow"})
            = <<L("overflow", "shell calls", <<" (all exit 0)">>, <<2>>)>>

----------------------------------------------------------------------------
(* C18: the overview table has one Source row; it shows the label of the   *)
(* adapter registered under the session's source tag, and the tag itself   *)
(* when no adapter is registered under it; amp, kiro, crush and            *)
(* antigravity are not registered.                                         *)
C18_SourceLabelOrRawTag ==
  /\ {"amp", "kiro", "crush", "antigravity"}
       \cap {Adapters[i].name : i \in DOMAIN Adapters} = {}
  /\ Done =>
       LET rows == SelectSeq(markdown, LAMBDA l : l.kind = "row" /\ l.text = "Source")
           registered == {i \in DOMAIN Adapters : Adapters[i].name = session.source}
       IN /\ Len(rows) = 1
          /\ registered # {} => \E i \in registered : rows[1].strs = <<Adapters[i].label>>
          /\ registered = {} => rows[1].strs = <<session.source>>

\* a session from amp, which has no adapter: the row shows "amp"
C18_Witness ==
  /\ Done
  /\ session.source = "amp"
  /\ \E i \in 1..Len(markdown) : markdown[i] = Row("Source", <<"amp">>, <<>>)

----------------------------------------------------------------------------
(* C19: under every interleaving of the statements of concurrent callers   *)
(* of getSourceLabels, each caller that has returned holds a map, and all  *)
(* of them hold maps of the same contents; once the cache is set no step   *)
(* changes its contents; and no step writes to the arguments of the call.  *)
C19_CachedLabelsAgree ==
  /\ [](\A p, q \in Callers :
          callerPc[p] = "returned" /\ callerPc[q] = "returned" =>
            /\ callerLabels[p] # {}
            /\ callerLabels[p] = callerLabels[q])
  /\ [][/\ sourceLabelsCache # {} => sourceLabelsCache' = sourceLabelsCache
        /\ UNCHANGED arguments]_vars

\* every caller has returned; two of them found the cache empty and both built
\* and stored the map, another found it set
C19_Witness ==
  /\ \A p \in Callers : callerPc[p] = "returned"
  /\ \E p, q \in Callers : p # q /\ callerBuilt[p] # {} /\ callerBuilt[q] # {}
  /\ \E p \in Callers : callerBuilt[p] = {} /\ callerLabels[p] # {}

----------------------------------------------------------------------------
(* C20: the size of the document is bounded by the selected caps alone,    *)
(* whatever the sizes of the inputs: no list of the document (tool         *)
(* sections, bullets of Key Decisions, messages, modified files, pending   *)
(* tasks) has more entries than the largest cap of the selected profile.   *)
LargestCap(caps) == CHOOSE v \in {caps[c] : c \in CapNames} : \A c \in CapNames : caps[c] <= v

C20_SizeBoundedByCaps ==
  Done =>
    \A kinds \in {{"heading"}, {"bullet"}, {"message"}, {"file"}, {"task"}} :
      Len(LinesOfKind(markdown, kinds)) <= LargestCap(Caps)

----------------------------------------------------------------------------
(* C21: selectTargetTool called without the excludeSource option returns   *)
(* null or an installed tool other than the session's source; the prompt   *)
(* it shows does not list the source; and when no tool other than the      *)
(* source is installed it returns null without showing a prompt.  The same *)
(* holds of the prompt resumeCommand shows.                                *)
C21_NeverOffersOwnSource ==
  /\ (cliCall.op = "selectTargetTool" /\ ~Has(cliCall.options, "excludeSource")
        /\ cliOutcome = "returned") =>
       LET source == cliCall.session.source
       IN /\ \A v \in cliValue : v # source /\ v \in Range(availableTools)
          /\ \A i \in 1..Len(prompts) : source \notin Range(prompts[i])
          /\ Range(availableTools) \subseteq {source} => cliValue = {} /\ prompts = <<>>
          /\ ~(Range(availableTools) \subseteq {source}) => Len(prompts) = 1
  /\ (cliCall.op = "resumeCommand" /\ cliCall.found # {}) =>
       \A f \in cliCall.found : \A i \in 1..Len(prompts) : f.source \notin Range(prompts[i])

\* the source is installed next to other tools, and the user chose one of the others
C21_Witness ==
  /\ cliCall.op = "selectTargetTool" /\ ~Has(cliCall.options, "excludeSource")
  /\ cliOutcome = "returned"
  /\ cliCall.session.source \in Range(availableTools)
  /\ Len(availableTools) = 3
  /\ cliValue # {}
  /\ Len(prompts) = 1 /\ Len(prompts[1]) = 2

----------------------------------------------------------------------------
(* C27: resumeCommand invokes resume at most once; not at all when the     *)
(* session is not found (the exit code is then 1), nor, in interactive     *)
(* mode without a target, unless the prompt was shown and the target       *)
(* passed to resume is one of its options; and when resume is invoked for  *)
(* a session with a non-empty cwd, the working directory was session.cwd   *)
(* at the time of the invocation.                                          *)
C27_ResumeOnceAfterChdir ==
  (cliCall.op = "resumeCommand" /\ cliOutcome # "pending") =>
    LET interactive == /\ cliCall.context.isTTY
                       /\ ~(Has(cliCall.options, "noTui") /\ cliCall.options.noTui)
                       /\ ~(Has(cliCall.options, "in") /\ cliCall.options["in"] # "")
    IN /\ cliOutcome = "returned"
       /\ Len(resumeCalls) <= 1
       /\ cliCall.found = {} => resumeCalls = <<>> /\ exitCode = 1
       /\ \A f \in cliCall.found :
            /\ (interactive /\ Range(availableTools) \subseteq {f.source}) => resumeCalls = <<>>
            /\ (interactive /\ resumeCalls # <<>>) =>
                 /\ Len(prompts) = 1
                 /\ resumeCalls[1].target \subseteq Range(prompts[1])
                 /\ resumeCalls[1].target # {}
            /\ ~interactive => prompts = <<>>
            /\ (resumeCalls # <<>> /\ f.cwd # "") => resumeCalls[1].cwd = f.cwd /\ cwd = f.cwd
            /\ (resumeCalls # <<>> /\ f.cwd = "") => resumeCalls[1].cwd = "/home"

\* interactive resume of a session with a cwd: prompt shown, directory changed,
\* resume invoked once
C27_Witness ==
  /\ cliCall.op = "resumeCommand" /\ cliOutcome = "returned"
  /\ cliCall.context.isTTY /\ cliCall.options = <<>>
  /\ Len(prompts) = 1
  /\ Len(resumeCalls) = 1
  /\ resumeCalls[1].cwd = "/work"
  /\ exitCode = 0

----------------------------------------------------------------------------
----------------------------------------------------------------------------
(* C22: the tokenUsage extractSessionNotes returns for an Amp thread holds *)
(* the sums of tokens.input and of tokens.output over the ledger events    *)
(* whose operationType is not 'title-generation', a missing tokens object  *)
(* or field counting as 0; it is absent when both sums are zero.           *)
C22_TokenUsageSkipsTitleGeneration ==
  "extractSessionNotes" \in returned =>
    LET events == IF "events" \in DOMAIN ampThread THEN ampThread.events ELSE <<>>
        counts(e) == ~("operationType" \in DOMAIN e /\ e.operationType = "title-generation")
        tokens(e, f) == IF "tokens" \in DOMAIN e /\ f \in DOMAIN e.tokens THEN e.tokens[f] ELSE 0
        sum(f) == SumSeq([i \in 1..Len(events) |->
                            IF counts(events[i]) THEN tokens(events[i], f) ELSE 0])
    IN IF sum("input") = 0 /\ sum("output") = 0
         THEN "tokenUsage" \notin DOMAIN ampNotes
         ELSE /\ "tokenUsage" \in DOMAIN ampNotes
              /\ ampNotes.tokenUsage = [input |-> sum("input"), output |-> sum("output")]

\* a ledger with a title-generation event carrying tokens between two counted events
C22_Witness ==
  /\ "extractSessionNotes" \in returned
  /\ "events" \in DOMAIN ampThread
  /\ Len(ampThread.events) = 3
  /\ ampThread.events[2] = [operationType |-> "title-generation",
                            tokens |-> [input |-> 40, output |-> 10], model |-> "haiku"]
  /\ "tokenUsage" \in DOMAIN ampNotes
  /\ ampNotes.tokenUsage = [input |-> 500, output |-> 200]

----------------------------------------------------------------------------
(* C23: every aggregate the Copilot parser returns has a count of at least *)
(* 1, which is the number of requests of that tool in the assistant        *)
(* messages; its samples are min(count, 5) in number and are built from    *)
(* the first requests of that tool, in event order.                        *)
C23_CopilotSamplesFirstFive ==
  "extractCopilotToolSummaries" \in returned =>
    LET all == CopilotRequests(copilotEvents)
        nameOf(tr) == IF "name" \in DOMAIN tr THEN tr.name ELSE Nm(<<"unknown">>)
        argsOf(tr) == IF "arguments" \in DOMAIN tr THEN {tr.arguments} ELSE {}
    IN \A s \in Range(copilotSummaries.summaries) :
         LET mine == SelectSeq(all, LAMBDA tr : nameOf(tr) = s.name)
         IN /\ s.count >= 1
            /\ s.count = Len(mine)
            /\ Len(s.samples) = (IF s.count < 5 THEN s.count ELSE 5)
            /\ \A k \in 1..Len(s.samples) :
                 /\ s.samples[k].summary.name = s.name
                 /\ s.samples[k].summary.args = argsOf(mine[k])

\* six or more requests of one tool: count above five, five samples
C23_Witness ==
  /\ "extractCopilotToolSummaries" \in returned
  /\ \E s \in Range(copilotSummaries.summaries) : s.count > 5 /\ Len(s.samples) = 5
  /\ \E s \in Range(copilotSummaries.summaries) : s.count < 5

----------------------------------------------------------------------------
(* C24: a call of generateHandoffMarkdown leaves its arguments as they     *)
(* were: toolSummaries holds the same aggregates in the same order, each   *)
(* with its name, count, errorCount and samples, and messages,             *)
(* filesModified and pendingTasks are what they were.                      *)
C24_ArgumentsLeftAlone ==
  [][/\ toolSummaries' = toolSummaries
     /\ messages' = messages
     /\ filesModified' = filesModified
     /\ pendingTasks' = pendingTasks]_vars

\* a call that merged a namespace: the sorted list is read from new objects
\* of the store and is the list rendered
C24_Witness ==
  /\ outcome = "returned"
  /\ \E e \in Range(Grouped) : IsMerged(e)
  /\ LET h == ArgumentObjects(toolSummaries, messages, filesModified, pendingTasks)
         after == ToolActivityInStore(h, ArgumentRefs(toolSummaries).toolSummaries)
     IN /\ after.ref > Len(h)
        /\ ValuesOf(after.h, after.ref) = Sorted

----------------------------------------------------------------------------
(* buildConversation: vocabulary.  Message i carries the timestamp i, so   *)
(* the timestamp of an entry names the message that produced it.           *)

IsPartialText(msg) == msg.type = "say" /\ msg.say = "text" /\ IsPartial(msg)

Producer(entry) == clineMessages[CHOOSE t \in entry.timestamp : TRUE]

\* the entries before and after message k is processed
EntriesBefore(k) == ConversationAfter(clineMessages, k - 1).result
EntriesAfter(k) == ConversationAfter(clineMessages, k).result

\* message k overwrites entry p
Overwrites(k, p) ==
  p <= Len(EntriesBefore(k)) /\
    (p > Len(EntriesAfter(k)) \/ EntriesAfter(k)[p] # EntriesBefore(k)[p])

OverwrittenOnlyByChunks ==
  \A k \in 1..Len(clineMessages) : \A p \in 1..Len(EntriesBefore(k)) :
    /\ Overwrites(k, p) =>
         IsPartialText(clineMessages[k]) /\ IsPartialText(Producer(EntriesBefore(k)[p]))
    /\ ~IsPartialText(Producer(EntriesBefore(k)[p])) => ~Overwrites(k, p)

\* i..j is a maximal run of adjacent messages of the list "ms" satisfying IsPartialText
MaximalRun(ms, i, j) ==
  /\ i <= j
  /\ \A m \in i..j : IsPartialText(ms[m])
  /\ i = 1 \/ ~IsPartialText(ms[i - 1])
  /\ j = Len(ms) \/ ~IsPartialText(ms[j + 1])

\* the entries of the result produced by the messages stamped in T
EntriesFrom(T) ==
  SelectSeq(clineConversation, LAMBDA e : e.timestamp \subseteq T /\ e.timestamp # {})

\* the messages that are not skipped, in order
Contributing == SelectSeq(clineMessages, LAMBDA m : ~Skipped(m))

(* C25 as stated: an entry is overwritten only by a partial text chunk and *)
(* only if a partial text chunk produced it, and every maximal run of      *)
(* consecutive partial text chunks of the raw list yields exactly one      *)
(* entry, holding the text of the last chunk of the run.                   *)
C25_Counterexample ==
  "buildConversation" \in returned =>
    /\ OverwrittenOnlyByChunks
    /\ \A i, j \in 1..Len(clineMessages) :
         MaximalRun(clineMessages, i, j) =>
           /\ Len(EntriesFrom(i..j)) = 1
           /\ EntriesFrom(i..j)[1].content = clineMessages[j].text

(* C25, amended: an entry is overwritten only by a partial text chunk and  *)
(* only if a partial text chunk produced it; entries produced by other     *)
(* messages are never overwritten; among the messages that are not skipped *)
(* (a role, a text that is not blank), every maximal run of consecutive    *)
(* partial text chunks yields exactly one entry, holding the trimmed text  *)
(* of the last chunk of the run.                                           *)
C25_RunOfChunksGivesOneEntry ==
  "buildConversation" \in returned =>
    /\ OverwrittenOnlyByChunks
    /\ \A i, j \in 1..Len(Contributing) :
         MaximalRun(Contributing, i, j) =>
           LET stamps == {Contributing[m].ts : m \in i..j}
           IN /\ Len(EntriesFrom(stamps)) = 1
              /\ EntriesFrom(stamps)[1].content = Trim(Contributing[j].text)
              /\ EntriesFrom(stamps)[1].timestamp = {Contributing[j].ts}

\* a chunk overwrote the entry of the chunk before it, and a reasoning entry
\* followed by a chunk was kept
C25_Witness ==
  /\ "buildConversation" \in returned
  /\ \E k \in 1..Len(clineMessages) :
       Len(EntriesBefore(k)) > 0 /\ Overwrites(k, Len(EntriesBefore(k)))
  /\ \E k \in 2..Len(clineMessages) :
       /\ IsPartialText(clineMessages[k]) /\ ~Skipped(clineMessages[k])
       /\ Has(clineMessages[k - 1], "say") /\ clineMessages[k - 1].say = "reasoning"
       /\ Len(EntriesAfter(k)) = Len(EntriesBefore(k)) + 1

----------------------------------------------------------------------------
\* the tasks a message offers: its matching lines, trimmed and truncated
TasksOf(msg) ==
  LET matching == SelectSeq(msg.text, IsTaskLine)
  IN [k \in 1..Len(matching) |-> truncate(Trim(matching[k]), TASK_CHARS)]

\* message i is a completion_result or text message with a matching line
Offers(i) == IsTaskSource(clineMessages[i]) /\ TasksOf(clineMessages[i]) # <<>>

----------------------------------------------------------------------------
(* C29 as stated: grouping is strictly idempotent as an ordered list, the  *)
(* second application returns the list of the first, element by element.   *)
C29_Counterexample ==
  Done => groupMcpByNamespace(Grouped) = Grouped

(* C29, amended: a second application returns the entries of the first     *)
(* with the single-member-namespace tools moved behind all other entries,  *)
(* each part in its order; it is the same list exactly when no             *)
(* single-member-namespace tool precedes another kind of entry.            *)
C29_RegroupMovesSingleMembersLast ==
  Done =>
    LET out == Grouped
        again == groupMcpByNamespace(out)
        others == SelectSeq(out, LAMBDA e : ~IsNamespaced(e))
        single == SelectSeq(out, IsNamespaced)
    IN /\ again = others \o single
       /\ (again = out) <=>
            ~\E i, j \in 1..Len(out) : i < j /\ IsNamespaced(out[i]) /\ ~IsNamespaced(out[j])

\* a single-member-namespace tool ahead of a merged group: the second
\* application returns another list
C29_Witness ==
  /\ Done
  /\ \E j, k \in 1..Len(Grouped) :
       j < k /\ IsNamespaced(Grouped[j]) /\ IsMerged(Grouped[k])
  /\ groupMcpByNamespace(Grouped) # Grouped

----------------------------------------------------------------------------
\* the heading line of the section an aggregate is rendered under
SectionHeading(tool) == renderSection(tool, Caps)[1]

(* C30 as stated: the heading of a merged namespace group names its        *)
(* namespace, and the headings of two different merged groups of one       *)
(* document differ.                                                        *)
C30_HeadingNamesNamespace ==
  Done =>
    /\ \A e \in Range(Sorted) :
         IsMerged(e) => e.name.parts[1] \in Range(SectionHeading(e).strs)
    /\ \A i, j \in 1..Len(Sorted) :
         (i # j /\ IsMerged(Sorted[i]) /\ IsMerged(Sorted[j]))
           => SectionHeading(Sorted[i]) # SectionHeading(Sorted[j])

====
